---- MODULE Spec2Model ----
(***************************************************************************)
(* Drive By: the job queue (src/src/job-queue.ts) and the session          *)
(* repository (src/src/git-repo.ts) over a git store driven through the    *)
(* command helpers (git-helpers).                                          *)
(*                                                                         *)
(* Scheduling.  The program runs on one JavaScript event loop.  A step of  *)
(* the model is one macrotask: an external trigger (a command, an editor   *)
(* event) or the completion of a git subprocess, together with the         *)
(* synchronous code it runs up to the next awaited subprocess.  The        *)
(* continuation of the drain loop after `await job()` is a microtask: it   *)
(* runs before any other macrotask.  The set `ready` holds the drain loops *)
(* whose continuation is pending; every macrotask action is guarded by     *)
(* ready = {}, so DrainStep runs to completion first.                      *)
(***************************************************************************)
EXTENDS Integers, Sequences, FiniteSets, TLC

\* ---- bounds of the model ----
MaxTriggers == 3      \* requests made on the GitRepo by its callers
MaxCommits == 3       \* commits the store can hold
MaxJobs == 2 * MaxTriggers   \* every request pushes at most two jobs
MaxFailures == 1      \* git subprocesses that exit with a fatal error
MaxAnnotations == 1   \* createAnnotation calls
MaxTimeline == 12     \* commits of a timeline the section queries are asked on
MaxSections == 3      \* annotated commits of such a timeline
MaxLabelLen == 5      \* characters of a label createSlug is applied to
MaxRecords == 3       \* commit records of a log given to parseCommitsSummary
MaxHunkLines == 4     \* lines of a hunk given to getChangeRanges
MaxHunks == 2         \* hunks of one file of a commit's diff
MaxTagCalls == 2      \* createAnnotation calls of a session that only annotates

Null == 0
Shas == 1..MaxCommits
branch == "demo"                     \* GitRepo.branch, the active branch
Branches == {"demo", "other"}
Labels == {<<"I", "n", " ", "1">>}    \* section labels typed by the user

Min(a, b) == IF a < b THEN a ELSE b

\* Array.prototype.indexOf, 1-based; 0 stands for -1
IndexOf(seq, x) ==
    IF \E i \in 1..Len(seq) : seq[i] = x
    THEN CHOOSE i \in 1..Len(seq) : seq[i] = x /\ \A k \in 1..(i - 1) : seq[k] # x
    ELSE 0

Without(f, k) == [x \in (DOMAIN f) \ {k} |-> f[x]]

(***************************************************************************)
(* The git store.  parents[c] is the parent of commit c (Null for a root), *)
(* tip[b] the commit a branch points at (Null: the branch does not exist), *)
(* headRef the branch HEAD is attached to or "detached" (then headSha),    *)
(* dirty: the working directory has unstaged edits, staged: the index has  *)
(* changes to commit, tags: the annotated tags.                            *)
(***************************************************************************)
HeadCommit(s) == IF s.headRef = "detached" THEN s.headSha ELSE s.tip[s.headRef]

\* the error of rev-parse on an unborn HEAD is not translated to null
getHeadFails(s) == IF HeadCommit(s) = Null THEN -1 ELSE HeadCommit(s)

\* git rev-parse HEAD / git rev-parse <branch>; "ambiguous argument" gives null
getHead(s) == HeadCommit(s)
getBranchHead(s, b) == s.tip[b]

\* git branch: the branches that exist
getBranches(s) == {b \in Branches : s.tip[b] # Null}

\* git branch <branch>: the branch is created but not checked out
createBranchOnly(s, b) == [s EXCEPT !.tip[b] = HeadCommit(s)]

\* git checkout -b <branch>
createBranch(s, b) == [s EXCEPT !.tip[b] = HeadCommit(s), !.headRef = b]

\* git checkout <branch> -f
restoreToBranch(s, b) == [s EXCEPT !.headRef = b, !.headSha = Null,
                                   !.dirty = FALSE, !.staged = FALSE]

\* git checkout <sha> -f
restoreToCommitSha(s, sha) == [s EXCEPT !.headRef = "detached", !.headSha = sha,
                                        !.dirty = FALSE, !.staged = FALSE]

\* git add .
GitAdd(s) == [s EXCEPT !.staged = s.staged \/ s.dirty, !.dirty = FALSE]

\* git commit -m ...: a new commit on top of HEAD; the attached branch follows
GitCommit(s) ==
    LET new == Len(s.parents) + 1
    IN  [s EXCEPT !.parents = Append(s.parents, HeadCommit(s)),
                  !.tip = IF s.headRef = "detached" THEN s.tip
                          ELSE [s.tip EXCEPT ![s.headRef] = new],
                  !.headSha = IF s.headRef = "detached" THEN new ELSE Null,
                  !.staged = FALSE]

\* git log <branch>, reversed by parseCommitsSummary: oldest first
RECURSIVE Ancestry(_, _)
Ancestry(s, c) == IF c = Null THEN <<>> ELSE Append(Ancestry(s, s.parents[c]), c)

getBranchChangeLog(s, b) == Ancestry(s, s.tip[b])

\* String.toLowerCase on the characters the labels use
ToLowerChar(c) == IF c = "I" THEN "i" ELSE c
IsSlugChar(c) == c \in {"a", "b", "i", "n", "0", "1", "2"}

\* the empty part before a leading separator is not dropped
SkipNothing(msg, i) == i

\* createSlug: lower-case, split on /[^a-z0-9]/, drop empty parts, join by "-"
RECURSIVE SkipSeparators(_, _)
SkipSeparators(msg, i) ==
    IF i <= Len(msg) /\ ~IsSlugChar(ToLowerChar(msg[i]))
    THEN SkipSeparators(msg, i + 1) ELSE i

RECURSIVE SlugTail(_, _, _)
SlugTail(msg, i, pending) ==
    IF i > Len(msg) THEN <<>>
    ELSE LET c == ToLowerChar(msg[i])
         IN  IF IsSlugChar(c)
             THEN (IF pending THEN <<"-", c>> ELSE <<c>>) \o SlugTail(msg, i + 1, FALSE)
             ELSE SlugTail(msg, i + 1, TRUE)

createSlug(msg) == SlugTail(msg, SkipSeparators(msg, 1), FALSE)

\* ---- git tag -a -m "<annotation>" <tagName> <sha>, run by a shell ----
\* The annotation is put between double quotes in the command line as it is,
\* so a double quote in it closes or opens the quoting.
Quote == "\""

QuotesBefore(msg, i) == Cardinality({k \in 1..(i - 1) : msg[k] = Quote})

\* a quote is left open: the shell rejects the command
UnbalancedQuotes(msg) == QuotesBefore(msg, Len(msg) + 1) % 2 = 1

\* a space outside of the quoting ends the argument: git tag gets one
\* argument too many and rejects the command
SplitsArgument(msg) ==
    \E i \in 1..Len(msg) : msg[i] = " " /\ QuotesBefore(msg, i) % 2 = 1

\* the argument the shell passes: the quotes are removed
ShellArgument(msg) == SelectSeq(msg, LAMBDA c : c # Quote)

\* git removes the white space at the end of the message it stores
RECURSIVE StripTrailing(_)
StripTrailing(msg) ==
    IF msg # <<>> /\ msg[Len(msg)] = " "
    THEN StripTrailing(SubSeq(msg, 1, Len(msg) - 1)) ELSE msg

\* the message of the tag object that the command creates
TagMessage(annotation) == StripTrailing(ShellArgument(annotation))

\* the command fails when the name is taken or the shell or git reject it
TagExists(s, name) == \E t \in s.tags : t.tagName = name

TagCommandFails(s, name, annotation) ==
    \/ TagExists(s, name)
    \/ UnbalancedQuotes(annotation)
    \/ SplitsArgument(annotation)

createTag(s, name, sha, annotation) ==
    [s EXCEPT !.tags = s.tags \cup
        {[tagName |-> name, annotation |-> TagMessage(annotation), commitSha |-> sha]}]

\* ---- git tag -l: the tag names in byte order ----
CharCode(c) ==
    CASE c = "-" -> 45 [] c = "0" -> 48 [] c = "1" -> 49 [] c = "2" -> 50
      [] c = "a" -> 97 [] c = "b" -> 98 [] c = "i" -> 105 [] c = "n" -> 110
      [] c = "s" -> 115

NameBefore(a, b) ==
    \E i \in 1..(Len(b)) :
        /\ \A k \in 1..(i - 1) : k <= Len(a) /\ a[k] = b[k]
        /\ \/ i > Len(a)
           \/ i <= Len(a) /\ CharCode(a[i]) < CharCode(b[i])

\* _.keyBy(tags, "commitSha") over the tags in the order of getTags: of the
\* tags on one commit the last one is kept
LastTagOn(s, c) ==
    CHOOSE t \in s.tags :
        /\ t.commitSha = c
        /\ \A u \in s.tags : (u.commitSha = c /\ u # t) => NameBefore(u.tagName, t.tagName)

\* git tag -v <tagName>, parsed from its output
getTag(s, name) == CHOOSE t \in s.tags : t.tagName = name


(***************************************************************************)
(* State.                                                                  *)
(*   store      the git repository in the working directory                *)
(*   state      GitRepo.subject$.value, the published projection           *)
(*   published  number of subject$.next calls                              *)
(*   jobs       JobQueue.jobs, the pending list (job ids)                  *)
(*   running    JobQueue.running                                           *)
(*   pushed     every job pushed so far; a job's id is its index here      *)
(*   promise    settlement of the promise each push returned               *)
(*   exec       the job bodies suspended at an awaited subprocess          *)
(*   ready      drain loops whose continuation after `await job()` is due  *)
(*   startedOrder  job ids in the order their bodies started               *)
(*   result     how each job's body ended ("pending", "running", or the    *)
(*              way it settled)                                            *)
(*   shown      jobs whose error went to window.showErrorMessage           *)
(*   hookCalls  number of beforeSave invocations                           *)
(*   failures   git subprocesses that failed so far                        *)
(*   ann        the createAnnotation call in flight                        *)
(*   annCount   createAnnotation calls so far                              *)
(*   stopPc     position of DriveBy.stopSession                            *)
(*   navN, navBase  bookkeeping of the current run of advance requests     *)
(*   query      the last call of a synchronous GitRepo method (the section *)
(*              queries, createSlug) and the value it returned             *)
(*   ext        the state of the extension's activate() closure: its save  *)
(*              counter, its replay flag, its job queue and the job that   *)
(*              runs, with the history of the working directory it drives  *)
(*   tracker    the files of a ChangeTracker's metadata directory: blobs,  *)
(*              trees, changes and the current ref, with the last call of  *)
(*              pushChange and what it returned                            *)
(***************************************************************************)
VARIABLES store, state, published, jobs, running, pushed, promise, exec, ready,
          startedOrder, result, shown, hookCalls, failures, ann, annCount,
          stopPc, navN, navBase, query, ext, tracker

vars == <<store, state, published, jobs, running, pushed, promise, exec, ready,
          startedOrder, result, shown, hookCalls, failures, ann, annCount,
          stopPc, navN, navBase, query, ext, tracker>>

queueVars == <<jobs, running, pushed, promise, ready, result, shown>>
navVars == <<navN, navBase>>

Settled == {j \in 1..Len(result) : result[j] \notin {"pending", "running"}}
Threw == {j \in 1..Len(result) : result[j] = "threw"}
Idle == ~running /\ jobs = <<>>

\* ---- GitRepo.initialize ----
\* the store after the commands initialize issues
InitializedStore(s) ==
    IF branch \in getBranches(s) THEN s ELSE createBranch(s, branch)

\* the projection with the ids of the change log and an empty commit map
InitialStateNoCommits(s) ==
    [head |-> getHead(s),
     branchHead |-> getBranchHead(s, branch),
     workingDirModified |-> s.dirty,
     commits |-> {},
     shas |-> getBranchChangeLog(s, branch),
     tags |-> [c \in {t.commitSha : t \in s.tags} |-> LastTagOn(s, c)]]

\* the projection initialize publishes
InitialState(s) ==
    LET commits == getBranchChangeLog(s, branch)
    IN  [head |-> getHead(s),
         branchHead |-> getBranchHead(s, branch),
         workingDirModified |-> s.dirty,
         commits |-> {commits[i] : i \in 1..Len(commits)},
         shas |-> commits,
         tags |-> [c \in {t.commitSha : t \in s.tags} |-> LastTagOn(s, c)]]

EmptyStore ==
    [parents |-> <<>>, tip |-> [b \in Branches |-> Null], headRef |-> "other",
     headSha |-> Null, dirty |-> FALSE, staged |-> FALSE, tags |-> {}]

NoQuery == [op |-> "none", arg |-> Null, value |-> Null]

\* createTracker, change-tracker.ts lines 39-55: the metadata directories are
\* made and hold no file; refs/current does not exist (<<>>)
createTracker ==
    [blobs |-> {}, trees |-> {}, changes |-> {}, current |-> <<>>, clock |-> 0,
     call |-> [path |-> <<>>, content |-> "", before |-> <<>>],
     result |-> [kind |-> "none", sha |-> <<>>]]

\* the working directories a session is started in
StartStores ==
    { EmptyStore,
      \* "other" checked out, the session branch is new
      [EmptyStore EXCEPT !.parents = <<Null>>, !.tip["other"] = 1],
      \* the session branch exists and is checked out
      [EmptyStore EXCEPT !.parents = <<Null, 1, 2>>, !.tip["demo"] = 3,
                         !.headRef = "demo"],
      \* the session branch exists, another branch ahead of it is checked out
      [EmptyStore EXCEPT !.parents = <<Null, 1>>, !.tip["demo"] = 1,
                         !.tip["other"] = 2],
      \* the session branch exists, another branch at the same commit is checked out
      [EmptyStore EXCEPT !.parents = <<Null, 1>>, !.tip["demo"] = 2,
                         !.tip["other"] = 2] }

\* the state after GitRepo.initialize in one of the directories `stores`
\* activate(), extension.ts lines 37-44, in a directory whose history has n
\* commits with the commit number head checked out (0: none)
Activated(n, head) ==
    [saveRefCount |-> 0, state |-> "idle", jobs |-> <<>>, running |-> "none",
     pc |-> "none", idx |-> 0, n |-> n, head |-> head, restored |-> <<>>,
     guardFired |-> 0, requests |-> 0, failed |-> 0]

RepoInitFrom(stores) ==
    /\ \E s \in stores :
          /\ store = InitializedStore(s)
          /\ state = InitialState(InitializedStore(s))
    /\ published = 0
    /\ jobs = <<>>
    /\ running = FALSE
    /\ pushed = <<>>
    /\ promise = <<>>
    /\ exec = <<>>
    /\ ready = {}
    /\ startedOrder = <<>>
    /\ result = <<>>
    /\ shown = {}
    /\ hookCalls = 0
    /\ failures = 0
    /\ ann = [pc |-> "idle", sha |-> Null, label |-> <<>>]
    /\ annCount = 0
    /\ stopPc = "idle"
    /\ navN = 0
    /\ navBase = 0
    /\ query = NoQuery
    /\ tracker = createTracker

InitFrom(stores) == RepoInitFrom(stores) /\ ext = Activated(0, Null)

Init == InitFrom(StartStores)


(***************************************************************************)
(* JobQueue (src/src/job-queue.ts).  The operators below work on the       *)
(* queue's fields gathered in a record, so that a push made from inside a  *)
(* running job (advanceToNextCommit, revertToPreviousCommit) and a push    *)
(* made by an external trigger share one definition.                       *)
(***************************************************************************)
Queue == [jobs |-> jobs, running |-> running, pushed |-> pushed,
          promise |-> promise, ready |-> ready, result |-> result,
          shown |-> shown]

\* the guard of ensureRunning left out
AlreadyRunningNever(r) == FALSE

\* ensureRunning line 15: `if (this.running) return;`
AlreadyRunning(r) == r

\* pop() in place of shift()
ShiftLast(js) == [job |-> js[Len(js)], rest |-> SubSeq(js, 1, Len(js) - 1)]

\* ensureRunning line 21: `this.jobs.shift()`
Shift(js) == [job |-> Head(js), rest |-> Tail(js)]

\* `await job()` without the try/catch
CatchesNothing == FALSE

\* ensureRunning lines 23-27: the try/catch around `await job()`
CatchesJobError == TRUE

\* the flag is not cleared when the list is empty
StaysRunning == TRUE

\* ensureRunning line 29: the value `running` gets when the list is empty
RunningAtExit == FALSE

\* push, and the synchronous part of the ensureRunning call it makes.  When
\* the queue is draining ensureRunning returns at once and so does push; when
\* it is idle this push becomes the drain loop (named by the push's id), and
\* its promise is settled when that loop ends.
Push(q, job) ==
    LET id == Len(q.pushed) + 1
        q1 == [q EXCEPT !.pushed = Append(q.pushed, job),
                        !.jobs = Append(q.jobs, id),
                        !.result = Append(q.result, "pending")]
    IN  IF AlreadyRunning(q.running)
        THEN [q1 EXCEPT !.promise = Append(q.promise, "resolved")]
        ELSE [q1 EXCEPT !.promise = Append(q.promise, "pending"),
                        !.running = TRUE,
                        !.ready = q.ready \cup {id}]

\* the catch block rethrows to the caller that pushed the job
JobEndedRethrows(q, j, l, r) ==
    IF r # "threw"
    THEN [q EXCEPT !.result[j] = r, !.ready = q.ready \cup {l}]
    ELSE [q EXCEPT !.result[j] = r, !.ready = q.ready \cup {l},
                   !.promise[j] = "rejected"]

\* the body of job j, run by loop l, ended with r ("threw": it raised)
JobEnded(q, j, l, r) ==
    IF r # "threw"
    THEN [q EXCEPT !.result[j] = r, !.ready = q.ready \cup {l}]
    ELSE IF CatchesJobError
    THEN [q EXCEPT !.result[j] = r, !.ready = q.ready \cup {l},
                   !.shown = q.shown \cup {j}]
    ELSE [q EXCEPT !.result[j] = r, !.ready = q.ready \ {l},
                   !.promise[l] = "rejected"]

\* the body of job j is suspended at an awaited subprocess
JobSuspended(q, j, l) ==
    [q EXCEPT !.result[j] = "running", !.ready = q.ready \ {l}]

SetQueue(q) ==
    /\ jobs' = q.jobs
    /\ running' = q.running
    /\ pushed' = q.pushed
    /\ promise' = q.promise
    /\ ready' = q.ready
    /\ result' = q.result
    /\ shown' = q.shown

\* the locals of a suspended job body: where it waits, the drain loop that
\* awaits it, restoreCommit's checkout form, save's `saved` and `head`
Context(pc, l, mode) ==
    [pc |-> pc, loop |-> l, mode |-> mode, saved |-> FALSE, h |-> Null]

\* ---- the GitRepo jobs: what each body does up to its first await ----

\* the guard of save left out
SaveAlways(st) == TRUE

\* save line 218: `if (branchHead === head)`
SaveTakesEffect(st) == st.branchHead = st.head

\* save lines 215-222
StartSave(q, j, l) ==
    IF SaveTakesEffect(state)
    THEN /\ SetQueue(JobSuspended(q, j, l))
         /\ exec' = (j :> Context("hook", l, "none")) @@ exec
         /\ UNCHANGED navVars
    ELSE /\ SetQueue(JobEnded(q, j, l, "backInTime"))
         /\ UNCHANGED <<exec, navVars>>

\* the detached form is issued for every target
CheckoutModeDetached(st, sha) == "detached"

\* restoreCommit line 165: which checkout form is issued
CheckoutMode(st, sha) == IF st.branchHead = sha THEN "branch" ELSE "detached"

\* restoreCommit lines 164-169
StartRestore(q, j, l) ==
    /\ SetQueue(JobSuspended(q, j, l))
    /\ exec' = (j :> Context("checkout", l, CheckoutMode(state, pushed[j].sha))) @@ exec
    /\ UNCHANGED navVars

Job(kind, sha, nested) == [kind |-> kind, sha |-> sha, nested |-> nested]

\* a head that is not on the timeline is taken for a boundary
StartNavigateLenient(q, j, l, dir) ==
    LET head == state.head
        shas == state.shas
        idx == IndexOf(shas, head)
        target == idx + dir
    IN  /\ exec' = exec
        /\ navBase' = IF dir = 1 /\ navN > 0 /\ navBase = 0 THEN idx ELSE navBase
        /\ navN' = navN
        /\ IF head = Null THEN SetQueue(JobEnded(q, j, l, "nullHead"))
           ELSE IF idx # 0 /\ target >= 1 /\ target <= Len(shas)
           THEN SetQueue(JobEnded(Push(q, Job("restore", shas[target], TRUE)), j, l, "delegated"))
           ELSE SetQueue(JobEnded(q, j, l, "boundary"))

\* advanceToNextCommit lines 197-211 (dir = 1) and
\* revertToPreviousCommit lines 179-193 (dir = -1)
StartNavigate(q, j, l, dir) ==
    LET head == state.head
        shas == state.shas
        idx == IndexOf(shas, head)
        target == idx + dir
    IN  /\ exec' = exec
        /\ navBase' = IF dir = 1 /\ navN > 0 /\ navBase = 0 THEN idx ELSE navBase
        /\ navN' = navN
        /\ IF head = Null THEN SetQueue(JobEnded(q, j, l, "nullHead"))
           ELSE IF idx = 0 THEN SetQueue(JobEnded(q, j, l, "threw"))
           ELSE IF target >= 1 /\ target <= Len(shas)
           THEN SetQueue(JobEnded(Push(q, Job("restore", shas[target], TRUE)), j, l, "delegated"))
           ELSE SetQueue(JobEnded(q, j, l, "boundary"))

\* ensureRunning lines 20-31: one turn of the drain loop l
DrainStep(l) ==
    /\ l \in ready
    /\ IF jobs = <<>>
       THEN /\ SetQueue([Queue EXCEPT !.running = RunningAtExit,
                                      !.ready = ready \ {l},
                                      !.promise[l] = "resolved"])
            /\ UNCHANGED <<exec, startedOrder, navVars>>
       ELSE LET sh == Shift(jobs)
                j == sh.job
                q == [Queue EXCEPT !.jobs = sh.rest]
            IN  /\ startedOrder' = Append(startedOrder, j)
                /\ CASE pushed[j].kind = "save" -> StartSave(q, j, l)
                     [] pushed[j].kind = "restore" -> StartRestore(q, j, l)
                     [] pushed[j].kind = "advance" -> StartNavigate(q, j, l, 1)
                     [] pushed[j].kind = "revert" -> StartNavigate(q, j, l, -1)
    /\ UNCHANGED <<store, state, published, hookCalls, failures, ann, annCount, stopPc,
                   query, ext, tracker>>


\* ---- completions of the subprocesses a job body awaits ----
Resume(j, pc) == exec' = [exec EXCEPT ![j].pc = pc]

Finish(j, r) ==
    /\ SetQueue(JobEnded(Queue, j, exec[j].loop, r))
    /\ exec' = Without(exec, j)

Suspended(j, pc) == ready = {} /\ j \in DOMAIN exec /\ exec[j].pc = pc

Pending(s) == (IF s.dirty THEN 1 ELSE 0) + (IF s.staged THEN 1 ELSE 0)

\* beforeSave (DriveBy.save lines 803-806) returned.  It writes the terminal
\* buffer to a tracked file; a write that changes the file is an Edit.
HookDone(j) ==
    /\ Suspended(j, "hook")
    /\ hookCalls' = hookCalls + 1
    /\ Resume(j, "add")
    /\ UNCHANGED <<store, state, published, jobs, running, pushed, promise, ready,
                   startedOrder, result, shown, failures, ann, annCount, stopPc,
                   navN, navBase, query, ext, tracker>>

\* git-helpers save: `git add .`
AddDone(j) ==
    /\ Suspended(j, "add")
    /\ store' = GitAdd(store)
    /\ Resume(j, "commit")
    /\ UNCHANGED <<state, published, jobs, running, pushed, promise, ready,
                   startedOrder, result, shown, hookCalls, failures, ann,
                   annCount, stopPc, navN, navBase, query, ext, tracker>>

\* git-helpers save: `git commit`; "nothing to commit" and "no changes added
\* to commit" give false, and GitRepo.save returns (lines 222-225)
CommitDone(j) ==
    /\ Suspended(j, "commit")
    /\ IF store.staged
       THEN /\ store' = GitCommit(store)
            /\ exec' = [exec EXCEPT ![j].pc = "revparse", ![j].saved = TRUE]
            /\ UNCHANGED queueVars
       ELSE /\ store' = store
            /\ Finish(j, "nothingToCommit")
    /\ UNCHANGED <<startedOrder, state, published, hookCalls, failures, ann, annCount, stopPc,
                   navN, navBase, query, ext, tracker>>

\* save lines 226-230: getBranchHead, then getCommit is issued
RevParseDone(j) ==
    /\ Suspended(j, "revparse")
    /\ IF getBranchHead(store, branch) = Null
       THEN Finish(j, "threw")
       ELSE /\ exec' = [exec EXCEPT ![j].pc = "show",
                                    ![j].h = getBranchHead(store, branch)]
            /\ UNCHANGED queueVars
    /\ UNCHANGED <<startedOrder, store, state, published, hookCalls, failures, ann, annCount,
                   stopPc, navN, navBase, query, ext, tracker>>

\* the new id is not appended
SavedShasSame(st, h) == st.shas

\* save line 236: the id list of the new projection
SavedShas(st, h) == Append(st.shas, h)

\* save lines 230-242: getCommit returned, the new projection is published
ShowDone(j) ==
    /\ Suspended(j, "show")
    /\ state' = [commits |-> state.commits \cup {exec[j].h},
                 shas |-> SavedShas(state, exec[j].h),
                 head |-> exec[j].h,
                 branchHead |-> exec[j].h,
                 workingDirModified |-> FALSE,
                 tags |-> state.tags]
    /\ published' = published + 1
    /\ Finish(j, "saved")
    /\ UNCHANGED <<store, startedOrder, hookCalls, failures, ann, annCount,
                   stopPc, navN, navBase, query, ext, tracker>>

\* the branch head follows the restored commit
RestoredStateMovesBranch(st, sha) ==
    [st EXCEPT !.workingDirModified = FALSE, !.head = sha, !.branchHead = sha]

\* the projection is built from the head alone, the annotations are dropped
RestoredStateDropsTags(st, sha) ==
    [st EXCEPT !.workingDirModified = FALSE, !.head = sha, !.tags = <<>>]

\* restoreCommit lines 170-174: the projection published after the checkout
RestoredState(st, sha) ==
    [st EXCEPT !.workingDirModified = FALSE, !.head = sha]

\* restoreCommit lines 165-174: the checkout returned, head is published
CheckoutDone(j) ==
    /\ Suspended(j, "checkout")
    /\ store' = IF exec[j].mode = "branch" THEN restoreToBranch(store, branch)
                ELSE restoreToCommitSha(store, pushed[j].sha)
    /\ state' = RestoredState(state, pushed[j].sha)
    /\ published' = published + 1
    /\ Finish(j, "restored")
    /\ UNCHANGED <<startedOrder, hookCalls, failures, ann, annCount, stopPc,
                   navN, navBase, query, ext, tracker>>

\* restoreCommit publishes the new head before its checkout has returned
ExecFailsPublished(j) ==
    /\ ready = {}
    /\ j \in DOMAIN exec
    /\ exec[j].pc # "hook"
    /\ failures < MaxFailures
    /\ failures' = failures + 1
    /\ Finish(j, "threw")
    /\ state' = IF exec[j].pc = "checkout"
                THEN RestoredState(state, pushed[j].sha) ELSE state
    /\ published' = IF exec[j].pc = "checkout" THEN published + 1 ELSE published
    /\ UNCHANGED <<store, startedOrder, hookCalls, ann, annCount, stopPc, navN,
                   navBase, query, ext, tracker>>

\* exec.ts: the subprocess exits with an error, the awaiting job body raises
ExecFails(j) ==
    /\ ready = {}
    /\ j \in DOMAIN exec
    /\ exec[j].pc # "hook"
    /\ failures < MaxFailures
    /\ failures' = failures + 1
    /\ Finish(j, "threw")
    /\ UNCHANGED <<store, state, published, startedOrder, hookCalls, ann,
                   annCount, stopPc, navN, navBase, query, ext, tracker>>

\* ---- external triggers ----
Requests == Cardinality({j \in 1..Len(pushed) : ~pushed[j].nested})

SessionActive == stopPc # "done"

Trigger(job) ==
    /\ ready = {}
    /\ SessionActive
    /\ Requests < MaxTriggers
    /\ SetQueue(Push(Queue, job))
    /\ UNCHANGED <<store, state, published, exec, startedOrder, hookCalls,
                   failures, ann, annCount, stopPc, query, ext, tracker>>

\* a request other than advance ends the current run of advance requests
OtherRequest ==
    /\ navN' = IF ~running THEN 0 ELSE -1
    /\ navBase' = 0

\* GitRepo.save, from DriveBy.save / onChangeDocument
Save ==
    /\ Trigger(Job("save", Null, FALSE))
    /\ OtherRequest

\* GitRepo.restoreCommit, from DriveBy.restore on a commit of the tree view
Restore(sha) ==
    /\ sha \in state.commits
    /\ Trigger(Job("restore", sha, FALSE))
    /\ OtherRequest

\* GitRepo.revertToPreviousCommit
Revert ==
    /\ Trigger(Job("revert", Null, FALSE))
    /\ OtherRequest

\* GitRepo.advanceToNextCommit
Advance ==
    /\ Trigger(Job("advance", Null, FALSE))
    /\ navN' = IF ~running THEN 1 ELSE IF navN >= 0 THEN navN + 1 ELSE navN
    /\ navBase' = IF ~running THEN 0 ELSE navBase

\* the user edits a file of the working directory
Edit ==
    /\ ready = {}
    /\ ~store.dirty
    /\ Len(store.parents) + Pending(store) < MaxCommits
    /\ store' = [store EXCEPT !.dirty = TRUE]
    /\ UNCHANGED <<state, published, jobs, running, pushed, promise, exec, ready,
                   startedOrder, result, shown, hookCalls, failures, ann,
                   annCount, stopPc, navN, navBase, query, ext, tracker>>

\* ---- GitRepo.createAnnotation (lines 143-157): not a queue job ----
\* createAnnotation is called, for at most `limit` times in all
Annotate(limit, sha, label) ==
    /\ ready = {}
    /\ SessionActive
    /\ ann.pc \in {"idle", "failed"}
    /\ annCount < limit
    /\ sha \in state.commits
    /\ ann' = [pc |-> "createTag", sha |-> sha, label |-> label]
    /\ annCount' = annCount + 1
    /\ UNCHANGED <<store, state, published, jobs, running, pushed, promise, exec,
                   ready, startedOrder, result, shown, hookCalls, failures,
                   stopPc, navN, navBase, query, ext, tracker>>

CreateTagDone ==
    /\ ready = {}
    /\ ann.pc = "createTag"
    /\ IF TagCommandFails(store, createSlug(ann.label), ann.label)
       THEN /\ store' = store
            /\ ann' = [ann EXCEPT !.pc = "failed"]
       ELSE /\ store' = createTag(store, createSlug(ann.label), ann.sha, ann.label)
            /\ ann' = [ann EXCEPT !.pc = "getTag"]
    /\ UNCHANGED <<state, published, jobs, running, pushed, promise, exec, ready,
                   startedOrder, result, shown, hookCalls, failures, annCount,
                   stopPc, navN, navBase, query, ext, tracker>>

GetTagDone ==
    /\ ready = {}
    /\ ann.pc = "getTag"
    /\ state' = [state EXCEPT !.tags =
                    (ann.sha :> getTag(store, createSlug(ann.label))) @@ state.tags]
    /\ published' = published + 1
    /\ ann' = [ann EXCEPT !.pc = "idle"]
    /\ UNCHANGED <<store, jobs, running, pushed, promise, exec, ready,
                   startedOrder, result, shown, hookCalls, failures, annCount,
                   stopPc, navN, navBase, query, ext, tracker>>

CreateAnnotation(sha, label) == Annotate(MaxAnnotations, sha, label)

\* the git tag subprocess exits with an error (createTag), or getTag returns
\* null and createAnnotation throws (lines 147-149)
AnnotationFails ==
    /\ ready = {}
    /\ ann.pc \in {"createTag", "getTag"}
    /\ failures < MaxFailures
    /\ failures' = failures + 1
    /\ ann' = [ann EXCEPT !.pc = "failed"]
    /\ UNCHANGED <<store, state, published, jobs, running, pushed, promise, exec,
                   ready, startedOrder, result, shown, hookCalls, annCount,
                   stopPc, navN, navBase, query, ext, tracker>>

\* ---- DriveBy.stopSession (drive-by.ts lines 570-577): not a queue job ----
StopSession ==
    /\ ready = {}
    /\ stopPc = "idle"
    /\ stopPc' = "checkout"
    /\ UNCHANGED <<store, state, published, jobs, running, pushed, promise, exec,
                   ready, startedOrder, result, shown, hookCalls, failures, ann,
                   annCount, navN, navBase, query, ext, tracker>>

\* `git checkout <branch> -f` returned; initializeSession then drops the repo
StopCheckoutDone ==
    /\ ready = {}
    /\ stopPc = "checkout"
    /\ IF store.tip[branch] = Null
       THEN store' = store /\ stopPc' = "failed"
       ELSE store' = restoreToBranch(store, branch) /\ stopPc' = "done"
    /\ UNCHANGED <<state, published, jobs, running, pushed, promise, exec, ready,
                   startedOrder, result, shown, hookCalls, failures, ann,
                   annCount, navN, navBase, query, ext, tracker>>

JobStep(j) ==
    \/ HookDone(j)
    \/ AddDone(j)
    \/ CommitDone(j)
    \/ RevParseDone(j)
    \/ ShowDone(j)
    \/ CheckoutDone(j)

Next ==
    \/ \E l \in 1..MaxJobs : DrainStep(l)
    \/ \E j \in 1..MaxJobs : JobStep(j)
    \/ \E j \in 1..MaxJobs : ExecFails(j)
    \/ Save
    \/ \E sha \in Shas : Restore(sha)
    \/ Advance
    \/ Revert
    \/ Edit
    \/ \E sha \in Shas, label \in Labels : CreateAnnotation(sha, label)
    \/ CreateTagDone
    \/ GetTagDone
    \/ AnnotationFails
    \/ StopSession
    \/ StopCheckoutDone

Spec == Init /\ [][Next]_vars

\* every awaited subprocess returns and the event loop runs due continuations
Fairness ==
    /\ WF_vars(\E l \in 1..MaxJobs : DrainStep(l))
    /\ WF_vars(\E j \in 1..MaxJobs : JobStep(j))

\* the sessions in which no section is begun and the session is not stopped
QueueNext ==
    \/ \E l \in 1..MaxJobs : DrainStep(l)
    \/ \E j \in 1..MaxJobs : JobStep(j)
    \/ \E j \in 1..MaxJobs : ExecFails(j)
    \/ Save
    \/ \E sha \in Shas : Restore(sha)
    \/ Advance
    \/ Revert
    \/ Edit

QueueSpec == Init /\ [][QueueNext]_vars

QueueLive == QueueSpec /\ Fairness

\* the sessions that are not stopped, in which sections are begun while
\* a few requests are made
FewRequests == Requests < MaxTriggers - 1

RepoNext ==
    \/ \E l \in 1..MaxJobs : DrainStep(l)
    \/ \E j \in 1..MaxJobs : JobStep(j)
    \/ \E j \in 1..MaxJobs : ExecFails(j)
    \/ FewRequests /\ Save
    \/ FewRequests /\ \E sha \in Shas : Restore(sha)
    \/ FewRequests /\ Advance
    \/ FewRequests /\ Revert
    \/ Edit
    \/ \E sha \in Shas, label \in Labels : CreateAnnotation(sha, label)
    \/ CreateTagDone
    \/ GetTagDone
    \/ AnnotationFails

RepoSpec == Init /\ [][RepoNext]_vars

\* the sessions started in a directory with no store
EmptyInit == InitFrom({EmptyStore})

EmptySpec == EmptyInit /\ [][QueueNext]_vars


(***************************************************************************)
(* The synchronous queries of GitRepo on the projection (git-repo.ts       *)
(* lines 78-141).  Indices are 1-based here: index i stands for the        *)
(* code's i - 1 and 0 for its -1.                                          *)
(***************************************************************************)
\* getAnnotation: the annotation of the tag on the commit; <<>> stands for
\* undefined, which is falsy like the empty string
getAnnotation(st, commitSha) ==
    IF commitSha \in DOMAIN st.tags THEN st.tags[commitSha].annotation ELSE <<>>

\* the predicate `(sha) => !!this.getAnnotation(sha)`
IsAnnotated(st, sha) == getAnnotation(st, sha) # <<>>

\* the search starts at startIdx in place of startIdx + 1
findIndexFromSelf(st, from) ==
    LET hits == {i \in (from - 1)..Len(st.shas) : i >= 1 /\ IsAnnotated(st, st.shas[i])}
    IN  IF hits = {} THEN 0 ELSE CHOOSE i \in hits : \A k \in hits : i <= k

\* lodash findIndex(shas, annotated, fromIndex), fromIndex >= 0
findIndex(st, from) ==
    LET hits == {i \in from..Len(st.shas) : IsAnnotated(st, st.shas[i])}
    IN  IF hits = {} THEN 0 ELSE CHOOSE i \in hits : \A k \in hits : i <= k

\* lodash findLastIndex(shas, annotated, fromIndex): a negative fromIndex
\* counts from the end, a large one is clipped to the last position
findLastIndex(st, from) ==
    LET len == Len(st.shas)
        start == IF from < 1
                 THEN (IF len + from - 1 > 0 THEN len + from - 1 ELSE 0) + 1
                 ELSE Min(from, len)
        hits == {i \in 1..Min(start, len) : IsAnnotated(st, st.shas[i])}
    IN  IF hits = {} THEN 0 ELSE CHOOSE i \in hits : \A k \in hits : i >= k

\* lines 78-93
getSectionCommitCount(st, sha) ==
    IF ~IsAnnotated(st, sha) THEN 0
    ELSE LET startIdx == IndexOf(st.shas, sha)
             nextSectionStartIdx == findIndex(st, startIdx + 1)
         IN  IF startIdx = 0 THEN 0
             ELSE IF nextSectionStartIdx = 0
             THEN Len(st.shas) - startIdx + 1
             ELSE nextSectionStartIdx - startIdx

\* lines 95-102
stepNumberOfHead(st, sectionSha) ==
    IF st.head = Null THEN 0
    ELSE IndexOf(st.shas, st.head) - IndexOf(st.shas, sectionSha) + 1

\* the upper end of the section is not tested
isHeadInSectionOpenEnded(st, sha) ==
    IF ~IsAnnotated(st, sha) THEN FALSE
    ELSE LET startIdx == IndexOf(st.shas, sha)
             headIdx == IndexOf(st.shas, st.head)
         IN  IF startIdx = 0 THEN FALSE
             ELSE IF st.head = Null THEN FALSE
             ELSE headIdx >= startIdx

\* the lower end of the section is not tested
isHeadInSectionFromStart(st, sha) ==
    IF ~IsAnnotated(st, sha) THEN FALSE
    ELSE LET startIdx == IndexOf(st.shas, sha)
             headIdx == IndexOf(st.shas, st.head)
             nextSectionStartIdx == findIndex(st, startIdx + 1)
         IN  IF startIdx = 0 THEN FALSE
             ELSE IF st.head = Null THEN FALSE
             ELSE IF nextSectionStartIdx = 0
             THEN Len(st.shas) >= headIdx
             ELSE nextSectionStartIdx > headIdx

\* lines 104-124
isHeadInSection(st, sha) ==
    IF ~IsAnnotated(st, sha) THEN FALSE
    ELSE LET startIdx == IndexOf(st.shas, sha)
             headIdx == IndexOf(st.shas, st.head)
             nextSectionStartIdx == findIndex(st, startIdx + 1)
         IN  IF startIdx = 0 THEN FALSE
             ELSE IF st.head = Null THEN FALSE
             ELSE IF nextSectionStartIdx = 0
             THEN Len(st.shas) >= headIdx /\ headIdx >= startIdx
             ELSE nextSectionStartIdx > headIdx /\ headIdx >= startIdx

\* the search runs forward from the start of the list
getSectionStartForward(st, sha) ==
    LET prevSectionStartIdx == findIndex(st, 1)
    IN  IF prevSectionStartIdx = 0 \/ prevSectionStartIdx > IndexOf(st.shas, sha)
        THEN Null ELSE st.shas[prevSectionStartIdx]

\* lines 126-134
getSectionStart(st, sha) ==
    LET idx == IndexOf(st.shas, sha)
        prevSectionStartIdx == findLastIndex(st, idx)
    IN  IF prevSectionStartIdx = 0 THEN Null ELSE st.shas[prevSectionStartIdx]

\* ---- the projections the queries are asked on ----
\* the log of a branch with n commits
Timeline(n) == [i \in 1..n |-> i]

SectionTag(c) == [tagName |-> <<"s">>, annotation |-> <<"I", "n", " ", "1">>,
                  commitSha |-> c]

\* a branch of n commits, a head that is null, on the branch or on a commit
\* outside of it (n + 1), and at most MaxSections tags, on those commits
Projections ==
    { [head |-> h, branchHead |-> IF n = 0 THEN Null ELSE n,
       workingDirModified |-> FALSE,
       commits |-> 1..n, shas |-> Timeline(n),
       tags |-> [c \in A |-> SectionTag(c)]] :
         n \in 0..MaxTimeline,
         h \in 0..(MaxTimeline + 1),
         A \in {B \in SUBSET (1..(MaxTimeline + 1)) : Cardinality(B) <= MaxSections} }

SectionInit ==
    /\ state \in {st \in Projections :
                     /\ st.head <= Len(st.shas) + 1
                     /\ \A c \in DOMAIN st.tags : c <= Len(st.shas) + 1}
    /\ store = EmptyStore
    /\ published = 0
    /\ jobs = <<>>
    /\ running = FALSE
    /\ pushed = <<>>
    /\ promise = <<>>
    /\ exec = <<>>
    /\ ready = {}
    /\ startedOrder = <<>>
    /\ result = <<>>
    /\ shown = {}
    /\ hookCalls = 0
    /\ failures = 0
    /\ ann = [pc |-> "idle", sha |-> Null, label |-> <<>>]
    /\ annCount = 0
    /\ stopPc = "idle"
    /\ navN = 0
    /\ navBase = 0
    /\ query = NoQuery
    /\ tracker = createTracker
    /\ ext = Activated(0, Null)

\* a synchronous method is called and returns; it changes nothing, so one
\* call per behaviour shows all there is to see
Call(op, arg, value) ==
    /\ query = NoQuery
    /\ query' = [op |-> op, arg |-> arg, value |-> value]
    /\ UNCHANGED <<store, state, published, jobs, running, pushed, promise, exec,
                   ready, startedOrder, result, shown, hookCalls, failures, ann,
                   annCount, stopPc, navN, navBase, ext, tracker>>

GetSectionCommitCount(sha) ==
    Call("getSectionCommitCount", sha, getSectionCommitCount(state, sha))

StepNumberOfHead(sha) ==
    Call("stepNumberOfHead", sha, stepNumberOfHead(state, sha))

IsHeadInSection(sha) ==
    Call("isHeadInSection", sha, isHeadInSection(state, sha))

GetSectionStart(sha) ==
    Call("getSectionStart", sha, getSectionStart(state, sha))

\* the commits a query is asked about: those of the branch and one outside
QueryIds == 1..(Len(state.shas) + 1)

SectionNext ==
    \/ \E sha \in QueryIds : GetSectionCommitCount(sha)
    \/ \E sha \in QueryIds : StepNumberOfHead(sha)
    \/ \E sha \in QueryIds : IsHeadInSection(sha)
    \/ \E sha \in QueryIds : GetSectionStart(sha)

SectionSpec == SectionInit /\ [][SectionNext]_vars

\* ---- createSlug applied to the labels a user can type ----
LabelChars == {"a", "I", "1", " ", "-"}

LabelInputs == UNION {[1..n -> LabelChars] : n \in 0..MaxLabelLen}

CreateSlug(label) == Call("createSlug", label, createSlug(label))

SlugNext == \E label \in LabelInputs : CreateSlug(label)

SlugSpec == EmptyInit /\ [][SlugNext]_vars


(***************************************************************************)
(* parseCommitsSummary (git-helpers lines 306-384).  A line of the output  *)
(* is known by the pattern it matches: "commit" the header line carrying   *)
(* the id, "merge" a line starting with Merge:, "author" and "date" the    *)
(* lines starting with Author: and Date:, "blank" the empty line, "file"   *)
(* a changed-file line (a space, a path, a bar, a count), and "text" any   *)
(* other line (an indented message line, the change summary).              *)
(***************************************************************************)
Line(kind, sha) == [kind |-> kind, sha |-> sha]

\* lines 309-312 and 379-382: the record in progress; the fields count what
\* was collected (message lines, changed files)
NewCommit == [sha |-> Null, author |-> FALSE, date |-> FALSE, message |-> 0,
              changedFiles |-> 0, changeSummary |-> FALSE]

ParserStart == [state |-> "begin", commits |-> <<>>, commit |-> NewCommit,
                threw |-> FALSE]

\* the record in progress is dropped in place of being accepted
acceptCommitDrops(p) == [p EXCEPT !.commit = NewCommit]

\* lines 377-383
acceptCommit(p) ==
    [p EXCEPT !.commits = Append(p.commits, p.commit), !.commit = NewCommit]

Raise(p) == [p EXCEPT !.threw = TRUE]

\* lines 315-369: the body of the loop for one line
ParseLine(p, line) ==
    IF p.threw THEN p
    ELSE CASE p.state = "begin" ->
                (IF line.kind = "commit"
                 THEN [p EXCEPT !.commit.sha = line.sha, !.state = "author"]
                 ELSE Raise(p))
           [] p.state = "author" ->
                (IF line.kind = "merge" THEN p
                 ELSE IF line.kind = "author"
                 THEN [p EXCEPT !.commit.author = TRUE, !.state = "date"]
                 ELSE Raise(p))
           [] p.state = "date" ->
                (IF line.kind = "date"
                 THEN [p EXCEPT !.commit.date = TRUE, !.state = "message-begin"]
                 ELSE Raise(p))
           [] p.state = "message-begin" ->
                [p EXCEPT !.state = "message-middle"]
           [] p.state = "message-middle" ->
                (IF line.kind = "blank"
                 THEN [p EXCEPT !.state = "fileset"]
                 ELSE [p EXCEPT !.commit.message = p.commit.message + 1])
           [] p.state = "fileset" ->
                (IF line.kind = "file"
                 THEN [p EXCEPT !.commit.changedFiles = p.commit.changedFiles + 1]
                 ELSE IF line.kind = "commit"
                 THEN [acceptCommit(p) EXCEPT !.commit.sha = line.sha,
                                              !.state = "author"]
                 ELSE [p EXCEPT !.commit.changeSummary = TRUE, !.state = "end"])
           [] p.state = "end" ->
                (IF line.kind # "blank" THEN Raise(p)
                 ELSE [acceptCommit(p) EXCEPT !.state = "begin"])

RECURSIVE ParseLines(_, _)
ParseLines(p, lines) ==
    IF lines = <<>> THEN p ELSE ParseLines(ParseLine(p, Head(lines)), Tail(lines))

Reverse(seq) == [i \in 1..Len(seq) |-> seq[Len(seq) + 1 - i]]

\* the list is returned in the order of discovery
KeepOrder(seq) == seq

\* line 374: commits.reverse()
OldestFirst(seq) == Reverse(seq)

\* lines 313-375: the value returned, or threw when an assertion failed
parseCommitsSummary(lines) ==
    LET p == ParseLines(ParserStart, lines)
        q == IF p.commit.sha # Null THEN acceptCommit(p) ELSE p
    IN  IF p.threw THEN [threw |-> TRUE, commits |-> <<>>]
        ELSE [threw |-> FALSE, commits |-> OldestFirst(q.commits)]

\* ---- the logs the parser is given ----
Repeat(line, n) == [i \in 1..n |-> line]

\* the lines git log --compact-summary prints for one commit: the header, a
\* Merge line for a merge, author, date, a blank line, the message, a blank
\* line, and for a commit with changes the file lines and the summary line
\* followed by a blank line
RecordLines(sha, shape) ==
    <<Line("commit", sha)>>
    \o (IF shape.merge THEN <<Line("merge", Null)>> ELSE <<>>)
    \o <<Line("author", Null), Line("date", Null), Line("blank", Null)>>
    \o Repeat(Line("text", Null), shape.message)
    \o <<Line("blank", Null)>>
    \o Repeat(Line("file", Null), shape.files)
    \o (IF shape.files > 0 THEN <<Line("text", Null), Line("blank", Null)>> ELSE <<>>)

RecordShapes == [merge : BOOLEAN, message : {1, 2}, files : {0, 1, 2}]

\* a log of n records, newest first: the newest commit has the greatest id
RECURSIVE LogLines(_)
LogLines(shapes) ==
    IF shapes = <<>> THEN <<>>
    ELSE RecordLines(Len(shapes), Head(shapes)) \o LogLines(Tail(shapes))

\* with the last line of the output cut off
WithoutLastLine(lines) == SubSeq(lines, 1, Len(lines) - 1)

LogInputs ==
    UNION {[1..n -> RecordShapes] : n \in 1..MaxRecords}

ParseCommitsSummary(shapes, cut) ==
    LET lines == IF cut THEN WithoutLastLine(LogLines(shapes)) ELSE LogLines(shapes)
    IN  Call("parseCommitsSummary", [shapes |-> shapes, lines |-> lines],
             parseCommitsSummary(lines))

\* ---- logs in which one line is not the one git prints there ----
LineKinds == {"commit", "merge", "author", "date", "blank", "file", "text"}

\* line `at` replaced by a line of another kind (a header carries a fresh id)
Damaged(lines, at, kind) ==
    [lines EXCEPT ![at] = Line(kind, IF kind = "commit" THEN MaxRecords + 1 ELSE Null)]

DamagedInputs ==
    UNION {[1..n -> RecordShapes] : n \in 1..(MaxRecords - 1)}

ParseDamaged(shapes, at, kind) ==
    LET lines == Damaged(LogLines(shapes), at, kind)
    IN  /\ LogLines(shapes)[at].kind # kind
        /\ Call("parseDamaged", [lines |-> lines, at |-> at],
                parseCommitsSummary(lines))

ParseNext ==
    /\ query = NoQuery
    /\ \/ \E shapes \in LogInputs, cut \in BOOLEAN : ParseCommitsSummary(shapes, cut)
       \/ \E shapes \in DamagedInputs, kind \in LineKinds :
             \E at \in 1..Len(LogLines(shapes)) : ParseDamaged(shapes, at, kind)

ParseSpec == EmptyInit /\ [][ParseNext]_vars


(***************************************************************************)
(* getChangeRanges (git-helpers lines 179-252) on the last hunk of a       *)
(* commit's diff.  A hunk line is known by its first character, tag, and   *)
(* its length, the first character included; "\\" is the line              *)
(* "\ No newline at end of file".  Indices are 1-based, 0 stands for -1.   *)
(***************************************************************************)
Position(line, character) == [line |-> line, character |-> character]

Range(start, end) == [start |-> start, end |-> end]

\* lines 185-186
hunkLines(hunk) == SelectSeq(hunk.lines, LAMBDA l : l.tag # "\\")

\* lines 187-188
newLines(hunk) == SelectSeq(hunkLines(hunk), LAMBDA l : l.tag # "-")

\* the added lines are counted on the old side too
oldLinesWithAdded(hunk) == hunkLines(hunk)

\* lines 189-190
oldLines(hunk) == SelectSeq(hunkLines(hunk), LAMBDA l : l.tag # "+")

\* lodash findIndex(lines, line => line[0] === tag)
firstWithTag(lines, tag) ==
    LET hits == {i \in 1..Len(lines) : lines[i].tag = tag}
    IN  IF hits = {} THEN 0 ELSE CHOOSE i \in hits : \A k \in hits : i <= k

\* lodash findLastIndex(lines, line => line[0] === tag)
lastWithTag(lines, tag) ==
    LET hits == {i \in 1..Len(lines) : lines[i].tag = tag}
    IN  IF hits = {} THEN 0 ELSE CHOOSE i \in hits : \A k \in hits : i >= k

\* lines 191-192
firstNewLineIdx(hunk) == firstWithTag(newLines(hunk), "+")

firstOldLineIdx(hunk) == firstWithTag(oldLines(hunk), "-")

\* the point is put at the top of the file whatever precedes the change
afterRangeFromTop(hunk) == Range(Position(1, 1), Position(1, 1))

\* lines 195-220
afterRange(hunk) ==
    IF firstNewLineIdx(hunk) # 0
    THEN LET lastNewLineIdx == lastWithTag(newLines(hunk), "+")
         IN  Range(Position(hunk.newStart + firstNewLineIdx(hunk) - 1, 1),
                   Position(hunk.newStart + lastNewLineIdx - 1,
                            newLines(hunk)[lastNewLineIdx].len))
    ELSE LET pos == IF firstOldLineIdx(hunk) = 1
                    THEN Position(1, 1)
                    ELSE Position(hunk.newStart + firstOldLineIdx(hunk) - 2,
                                  oldLines(hunk)[firstOldLineIdx(hunk) - 1].len)
         IN  Range(pos, pos)

beforeRangeFromTop(hunk) == Range(Position(1, 1), Position(1, 1))

\* lines 222-247
beforeRange(hunk) ==
    IF firstOldLineIdx(hunk) = 0
    THEN LET pos == IF firstNewLineIdx(hunk) = 1
                    THEN Position(1, 1)
                    ELSE Position(hunk.oldStart + firstNewLineIdx(hunk) - 2,
                                  newLines(hunk)[firstNewLineIdx(hunk) - 1].len)
         IN  Range(pos, pos)
    ELSE LET lastOldLineIdx == lastWithTag(oldLines(hunk), "-")
         IN  Range(Position(hunk.oldStart + firstOldLineIdx(hunk) - 1, 1),
                   Position(hunk.oldStart + lastOldLineIdx - 1,
                            oldLines(hunk)[lastOldLineIdx].len))

\* line 249
getChangeRanges(hunk) == [before |-> beforeRange(hunk), after |-> afterRange(hunk)]

\* ---- the hunks a diff can hold ----
\* an empty line, which is its first character alone, or a line of one more
HunkLine == [tag : {"+", "-", " "}, len : {1, 2}]

NoNewlineLine == [tag |-> "\\", len |-> 28]

\* a hunk has a changed line; the no-newline line can only follow a line
HunkLineSeqs ==
    LET body == UNION {[1..n -> HunkLine] : n \in 1..MaxHunkLines}
        changed == {ls \in body : \E i \in 1..Len(ls) : ls[i].tag # " "}
    IN  changed \cup {Append(ls, NoNewlineLine) : ls \in {c \in changed : Len(c) < MaxHunkLines}}

\* the first line of each side the hunk covers; 0 on a side that is empty
HunkStarts == {0, 1, 7}

GetChangeRanges(hunk) == Call("getChangeRanges", hunk, getChangeRanges(hunk))

\* ---- the diff of a commit: the files parsePatch found, each with hunks ----
None == [before |-> Null, after |-> Null]      \* undefined

\* the first hunk is taken
firstHunk(hunks) == hunks[1]

\* line 183: hunks[hunks.length - 1]
lastHunk(hunks) == hunks[Len(hunks)]

\* lines 181-251: diff[0].hunks, its last hunk, undefined when there is none
getChangeRangesOfDiff(diff) ==
    LET hunks == diff[1].hunks
    IN  IF hunks = <<>> THEN None ELSE getChangeRanges(lastHunk(hunks))

HunkOf(o, n, tags) ==
    [oldStart |-> o, newStart |-> n,
     lines |-> [i \in 1..Len(tags) |->
                  IF tags[i] = "\\" THEN NoNewlineLine ELSE [tag |-> tags[i], len |-> 2]]]

\* an addition, a deletion, the last line of a file replaced (neither the old
\* nor the new line ends in a newline), a line replaced further down
DiffHunks ==
    { HunkOf(1, 1, <<" ", "+">>),
      HunkOf(3, 4, <<"-", "-", " ">>),
      HunkOf(7, 6, <<" ", "-", "\\", "+", "\\">>),
      HunkOf(9, 8, <<"-", "+", "+">>) }

\* a file without hunks is a binary or a renamed file, or the empty patch
FileDiffs == {[hunks |-> hs] : hs \in UNION {[1..n -> DiffHunks] : n \in 0..MaxHunks}}

CommitDiffs == UNION {[1..n -> FileDiffs] : n \in 1..2}

GetChangeRangesOfDiff(diff) ==
    Call("getChangeRangesOfDiff", diff, getChangeRangesOfDiff(diff))

RangeNext ==
    /\ query = NoQuery
    /\ \/ \E ls \in HunkLineSeqs, o \in HunkStarts, n \in HunkStarts \ {0} :
             GetChangeRanges([oldStart |-> o, newStart |-> n, lines |-> ls])
       \/ \E diff \in CommitDiffs : GetChangeRangesOfDiff(diff)

RangeSpec == EmptyInit /\ [][RangeNext]_vars


(***************************************************************************)
(* branchFrom(id, name), called by DriveBy.branchHere (drive-by.ts         *)
(* 539-553).  Its body is not part of the sources; it is taken from its    *)
(* description: it checks out id, creates a new timeline there, truncates  *)
(* orderedIds to everything up to and including id, and switches the       *)
(* active timeline to the new one.                                         *)
(***************************************************************************)
\* orderedIds up to and including id
UpTo(shas, id) == SubSeq(shas, 1, IndexOf(shas, id))

branchFrom(s, st, id, name) ==
    [store |-> createBranch(restoreToCommitSha(s, id), name),
     state |-> [st EXCEPT !.shas = UpTo(st.shas, id), !.head = id,
                          !.branchHead = id, !.workingDirModified = FALSE],
     branch |-> name]

\* a session branch of n commits with h checked out, on the branch when h is
\* its tip and detached otherwise, the working directory modified or not
TimelineStore(n, h, dirty) ==
    [EmptyStore EXCEPT !.parents = [i \in 1..n |-> IF i = 1 THEN Null ELSE i - 1],
                       !.tip[branch] = n,
                       !.headRef = IF h = n THEN branch ELSE "detached",
                       !.headSha = IF h = n THEN Null ELSE h,
                       !.dirty = dirty]

BranchFrom(n, h, dirty, id) ==
    LET s == TimelineStore(n, h, dirty)
    IN  Call("branchFrom", [store |-> s, state |-> InitialState(s), id |-> id],
             branchFrom(s, InitialState(s), id, "other"))

BranchNext ==
    /\ query = NoQuery
    /\ \E n \in 1..MaxTimeline, dirty \in BOOLEAN :
         \E h \in 1..n, id \in 1..n : BranchFrom(n, h, dirty, id)

BranchSpec == EmptyInit /\ [][BranchNext]_vars


(***************************************************************************)
(* The sessions in which sections are begun and nothing else is done, with *)
(* the labels a user can type: plain, ending in a space, holding quotes.   *)
(***************************************************************************)
TagLabels == {<<"b">>, <<"a">>, <<"a", " ">>, <<"b", Quote, "a", Quote>>}

TagNext ==
    \/ \E sha \in Shas, label \in TagLabels : Annotate(MaxTagCalls, sha, label)
    \/ CreateTagDone
    \/ GetTagDone
    \/ AnnotationFails

TagSpec == Init /\ [][TagNext]_vars


(***************************************************************************)
(* The extension (extension.ts): document changes push doSave jobs and the *)
(* replay command pushes a replay job on the extension's own JobQueue,     *)
(* which runs one job at a time and catches what a job throws              *)
(* (job-queue.ts lines 14-33).                                             *)
(***************************************************************************)
ExtUnchanged ==
    UNCHANGED <<store, state, published, jobs, running, pushed, promise, exec,
                ready, startedOrder, result, shown, hookCalls, failures, ann,
                annCount, stopPc, navN, navBase, query, tracker>>

ExtPush(e, kind) ==
    [e EXCEPT !.jobs = Append(e.jobs, kind), !.requests = e.requests + 1]

\* the job that runs returns or throws: the queue goes on
JobOver(e) == [e EXCEPT !.running = "none", !.pc = "none", !.idx = 0]

\* onChangeDocument / onChangeActiveTextEditor, lines 160-187
OnChangeDocument ==
    /\ ext.requests < MaxTriggers
    /\ ext' = ExtPush(ext, "save")
    /\ ExtUnchanged

\* toggleReplay, lines 219-225
ToggleReplay ==
    /\ ext.requests < MaxTriggers
    /\ ext' = IF ext.state = "replay"
              THEN [ext EXCEPT !.state = "idle", !.requests = ext.requests + 1]
              ELSE ExtPush(ext, "replay")
    /\ ExtUnchanged

\* the queue takes the next job and runs it up to its first await; for doSave
\* these are lines 287-291: the counter and its guard
ExtStartJob ==
    /\ ext.running = "none"
    /\ ext.jobs # <<>>
    /\ LET e == [ext EXCEPT !.jobs = Tail(ext.jobs)]
       IN  ext' = IF Head(ext.jobs) = "replay"
                  THEN [e EXCEPT !.running = "replay", !.pc = "getHead"]
                  ELSE IF e.saveRefCount + 1 > 1
                  THEN [e EXCEPT !.saveRefCount = e.saveRefCount + 1,
                                 !.guardFired = e.guardFired + 1]
                  ELSE [e EXCEPT !.saveRefCount = e.saveRefCount + 1,
                                 !.running = "save", !.pc = "git"]
    /\ ExtUnchanged

\* doSave lines 292-306: the git commands returned; a commit is made when
\* the head is the last commit and a file has changed
DoSaveDone ==
    /\ ext.running = "save"
    /\ \E commits \in BOOLEAN :
          LET e == IF commits /\ ext.head = ext.n /\ ext.n < MaxCommits
                   THEN [ext EXCEPT !.n = ext.n + 1, !.head = ext.n + 1]
                   ELSE ext
          IN  ext' = JobOver([e EXCEPT !.saveRefCount = e.saveRefCount - 1])
    /\ ExtUnchanged

\* a git command of the running job exits with an error: the job throws at
\* its await (delay does not fail)
ExtJobFails ==
    /\ ext.running # "none"
    /\ ext.pc # "delay"
    /\ ext.failed < MaxFailures
    /\ ext' = JobOver([ext EXCEPT !.failed = ext.failed + 1])
    /\ ExtUnchanged

\* replay lines 228-238: head and the commit list are read, the flag is set
ReplayBegin ==
    /\ ext.running = "replay"
    /\ ext.pc = "getHead"
    /\ ext' = IF ext.head = Null THEN JobOver(ext)
              ELSE IF ext.head + 1 <= ext.n
              THEN [ext EXCEPT !.state = "replay", !.idx = ext.head + 1,
                               !.pc = "restore"]
              ELSE JobOver([ext EXCEPT !.state = "idle"])
    /\ ExtUnchanged

\* replay line 242: doRestoreCommit returned
ReplayRestoreDone ==
    /\ ext.running = "replay"
    /\ ext.pc = "restore"
    /\ ext' = [ext EXCEPT !.head = ext.idx,
                          !.restored = Append(ext.restored, ext.idx),
                          !.pc = "delay"]
    /\ ExtUnchanged

\* the flag is not looked at between the steps
AfterDelayIgnoresStop(e) ==
    IF e.idx + 1 <= e.n
    THEN [e EXCEPT !.idx = e.idx + 1, !.pc = "restore"]
    ELSE JobOver([e EXCEPT !.state = "idle"])

\* replay lines 243-250: after the delay the flag is looked at, then the
\* next commit is taken or the loop ends
AfterDelay(e) ==
    IF e.state = "idle" THEN JobOver([e EXCEPT !.state = "idle"])
    ELSE IF e.idx + 1 <= e.n
    THEN [e EXCEPT !.idx = e.idx + 1, !.pc = "restore"]
    ELSE JobOver([e EXCEPT !.state = "idle"])

ReplayDelayDone ==
    /\ ext.running = "replay"
    /\ ext.pc = "delay"
    /\ ext' = AfterDelay(ext)
    /\ ExtUnchanged

ExtSteps ==
    \/ ExtStartJob
    \/ DoSaveDone
    \/ ReplayBegin
    \/ ReplayRestoreDone
    \/ ReplayDelayDone

ExtNext ==
    \/ OnChangeDocument
    \/ ToggleReplay
    \/ ExtJobFails
    \/ ExtSteps

\* the directories the extension is activated in
ExtInit ==
    /\ RepoInitFrom({EmptyStore})
    /\ \E n \in 0..MaxCommits :
          \E head \in (IF n = 0 THEN {Null} ELSE 1..n) : ext = Activated(n, head)

ExtSpec == ExtInit /\ [][ExtNext]_vars

\* every job step that can be taken is taken
ExtLive == ExtSpec /\ WF_vars(ExtSteps)


(***************************************************************************)
(* The change tracker (change-tracker.ts), a content-addressed store of    *)
(* blobs, trees and changes.  sha1 is taken to be injective: the sha of a  *)
(* file is the sequence of tokens of its content.  A blob's sha is its     *)
(* content, a tree's sha the serialisation of its entries in key order, a  *)
(* change's sha the chain of <timestamp, rootTreeSha> from the first       *)
(* change to this one, so that its parentSha is the chain without its last *)
(* element and <<>> stands for null.  A tree is the sequence of its        *)
(* entries [name, type, sha] in the order JSON.stringify writes the keys.  *)
(* A path is a sequence of tokens in which Sep separates the parts.        *)
(***************************************************************************)
MaxChanges == 3

Sep == "/"
FilePaths == {<<"a">>, <<"a", Sep, "b">>, <<"c">>, <<"a", Sep, "b", Sep, "c">>}
FileContents == {"x", "y"}

\* filePath.split(path.sep), line 90
RECURSIVE Split(_)
Split(filePath) ==
    IF \A i \in 1..Len(filePath) : filePath[i] # Sep
    THEN <<filePath>>
    ELSE LET at == CHOOSE i \in 1..Len(filePath) :
                       /\ filePath[i] = Sep
                       /\ \A k \in 1..(i - 1) : filePath[k] # Sep
         IN <<SubSeq(filePath, 1, at - 1)>>
                \o Split(SubSeq(filePath, at + 1, Len(filePath)))

RECURSIVE Serialise(_)
Serialise(tree) ==
    IF tree = <<>> THEN <<>>
    ELSE Head(tree).name \o <<":", Head(tree).type>> \o Head(tree).sha
             \o <<",">> \o Serialise(Tail(tree))

\* saveTree lines 144-150: the sha of the JSON text of the tree
treeSha(tree) == <<"{">> \o Serialise(tree) \o <<"}">>

\* saveBlob lines 175-179
blobSha(fileContent) == <<fileContent>>

\* fetchTree lines 166-169: the file of that name in the trees directory
fetchTree(trees, sha) == CHOOSE tree \in trees : treeSha(tree) = sha

\* subTree[firstPathPart], 0 when the tree has no such key
EntryAt(tree, name) ==
    IF \E i \in 1..Len(tree) : tree[i].name = name
    THEN CHOOSE i \in 1..Len(tree) : tree[i].name = name
    ELSE 0

Named(name, entry) == [name |-> name, type |-> entry.type, sha |-> entry.sha]
Entry(type, sha) == [type |-> type, sha |-> sha]

\* generateTreeEntry lines 216-235; the files it writes are returned with it
RECURSIVE generateTreeEntry(_, _)
generateTreeEntry(filePath, fileContent) ==
    IF filePath = <<>>
    THEN [ok |-> TRUE, entry |-> Entry("blob", blobSha(fileContent)),
          trees |-> {}, blobs |-> {blobSha(fileContent)}]
    ELSE LET sub == generateTreeEntry(Tail(filePath), fileContent)
             tree == <<Named(Head(filePath), sub.entry)>>
         IN [ok |-> TRUE, entry |-> Entry("tree", treeSha(tree)),
             trees |-> sub.trees \cup {tree}, blobs |-> sub.blobs]

\* applyChangeToTreeEntry lines 181-214; ok is FALSE when it throws "Cannot
\* save a new file within a non-directory."
RECURSIVE applyChangeToTreeEntry(_, _, _, _)
applyChangeToTreeEntry(trees, entry, filePath, fileContent) ==
    IF filePath = <<>>
    THEN [ok |-> TRUE, entry |-> Entry("blob", blobSha(fileContent)),
          trees |-> {}, blobs |-> {blobSha(fileContent)}]
    ELSE IF entry.type = "blob"
    THEN [ok |-> FALSE, entry |-> entry, trees |-> {}, blobs |-> {}]
    ELSE LET subTree == fetchTree(trees, entry.sha)
             at == EntryAt(subTree, Head(filePath))
             sub == IF at = 0
                    THEN generateTreeEntry(Tail(filePath), fileContent)
                    ELSE applyChangeToTreeEntry(trees,
                             Entry(subTree[at].type, subTree[at].sha),
                             Tail(filePath), fileContent)
             newSubTree == IF at = 0
                           THEN Append(subTree, Named(Head(filePath), sub.entry))
                           ELSE [subTree EXCEPT
                                    ![at] = Named(Head(filePath), sub.entry)]
         IN IF sub.ok
            THEN [ok |-> TRUE, entry |-> Entry("tree", treeSha(newSubTree)),
                  trees |-> sub.trees \cup {newSubTree}, blobs |-> sub.blobs]
            ELSE sub

\* fetchChange lines 159-164
rootTreeSha(sha) == sha[Len(sha)].rootTreeSha
parentSha(sha) == SubSeq(sha, 1, Len(sha) - 1)

\* saveChange lines 152-157
changeSha(parent, now, root) ==
    Append(parent, [timestamp |-> now, rootTreeSha |-> root])

\* pushChangeOnParent lines 73-101 at the time now; the value is the tracker
\* with the files written and the result of the call
pushChangeOnParent(t, parent, filePath, fileContent, now) ==
    LET saved == IF parent # <<>> THEN t.trees ELSE t.trees \cup {<<>>}
        parentTreeSha == IF parent # <<>> THEN rootTreeSha(parent)
                         ELSE treeSha(<<>>)
        treeEntry == Entry("tree", parentTreeSha)
        new == applyChangeToTreeEntry(saved, treeEntry, Split(filePath),
                                      fileContent)
        written == [t EXCEPT !.trees = saved \cup new.trees,
                             !.blobs = t.blobs \cup new.blobs]
    IN IF ~new.ok
       THEN [t EXCEPT !.trees = saved,
                      !.result = [kind |-> "throw", sha |-> <<>>]]
       ELSE IF new.entry.sha # treeEntry.sha
       THEN LET sha == changeSha(parent, now, new.entry.sha)
            IN [written EXCEPT !.changes = written.changes \cup {sha},
                               !.result = [kind |-> "sha", sha |-> sha]]
       ELSE [written EXCEPT !.result = [kind |-> "null", sha |-> <<>>]]

\* a pushChange that writes the ref whatever pushChangeOnParent returned
pushChangeAlways(t, filePath, fileContent, now) ==
    LET pushed_ == pushChangeOnParent(t, t.current, filePath, fileContent, now)
    IN [pushed_ EXCEPT !.current = pushed_.result.sha]

\* pushChange lines 57-71
pushChange(t, filePath, fileContent, now) ==
    LET pushed_ == pushChangeOnParent(t, t.current, filePath, fileContent, now)
    IN IF pushed_.result.kind = "sha"
       THEN [pushed_ EXCEPT !.current = pushed_.result.sha]
       ELSE pushed_

TrackerUnchanged ==
    UNCHANGED <<store, state, published, jobs, running, pushed, promise, exec,
                ready, startedOrder, result, shown, hookCalls, failures, ann,
                annCount, stopPc, navN, navBase, query, ext>>

\* a call of pushChange; new Date() gives the time of the last change or a
\* later one
PushChange(filePath, fileContent) ==
    /\ Cardinality(tracker.changes) < MaxChanges
    /\ \E now \in {tracker.clock, Min(tracker.clock + 1, MaxChanges)} :
          tracker' = [pushChange(tracker, filePath, fileContent, now) EXCEPT
                         !.clock = now,
                         !.call = [path |-> filePath, content |-> fileContent,
                                   before |-> tracker.current]]
    /\ TrackerUnchanged

TrackerNext ==
    \E filePath \in FilePaths, fileContent \in FileContents :
        PushChange(filePath, fileContent)

TrackerSpec == EmptyInit /\ [][TrackerNext]_vars


(***************************************************************************)
(* Claims about the job queue.                                             *)
(***************************************************************************)
Started(j) ==
    /\ Len(startedOrder') = Len(startedOrder) + 1
    /\ startedOrder'[Len(startedOrder')] = j

SettlesNow(j) == j \notin Settled /\ j \in Settled'

Jobs == 1..MaxJobs

\* C1: mutual exclusion. At most one job body has started and not yet
\* settled, whatever the interleaving of pushes, nested pushes included.
MutualExclusion == Cardinality(DOMAIN exec) <= 1

\* a job pushed from inside a running job executes while another job waits
MutualExclusionWitness ==
    \E j \in DOMAIN exec : pushed[j].nested /\ jobs # <<>>

\* C2: the promise returned by push(job) resolves only after that job's body
\* has finished, whether the queue was idle or draining at the push.
PushResolvesAfterJob ==
    \A j \in 1..Len(promise) : promise[j] = "resolved" => j \in Settled

\* C3: FIFO. Job bodies start in the order the jobs were pushed (a job's id
\* is its rank among the pushes).
StartInPushOrder ==
    \A k \in 1..Len(startedOrder) : startedOrder[k] = k

\* three jobs have started, one of them pushed from inside a running job
StartInPushOrderWitness ==
    /\ Len(startedOrder) >= 3
    /\ \E k \in 1..Len(startedOrder) : pushed[startedOrder[k]].nested

AllSettled == Settled = 1..Len(pushed)

\* C4: a job that throws does not stop the queue. Once a job has thrown, the
\* queue again and again reaches the state where every job pushed so far has
\* been executed, the pending list is empty and running is false.
FailureDoesNotStopQueue ==
    (Threw # {}) ~> (Idle /\ AllSettled)

\* a job pushed after a failing job has run, and the queue is idle again
FailureDoesNotStopQueueWitness ==
    /\ Idle
    /\ \E a \in Threw : \E b \in Settled \ Threw : b > a

DrainLiveness ==
    /\ []<>(Idle /\ AllSettled)
    /\ [](\A a, b \in 1..Len(startedOrder) : startedOrder[a] = startedOrder[b] => a = b)
    /\ []((DOMAIN exec # {} \/ jobs # <<>>) => running)

\* the queue is idle after it ran at least three jobs
DrainLivenessWitness ==
    /\ Idle
    /\ AllSettled
    /\ Len(pushed) >= 3

(***************************************************************************)
(* Claims about the repository state machine.                              *)
(***************************************************************************)
HeadIndex == IndexOf(state.shas, state.head)

NoDuplicateShas ==
    \A a, b \in 1..Len(state.shas) : state.shas[a] = state.shas[b] => a = b

\* C7: N advanceToNextCommit requests issued while the queue is busy, with
\* head at index i when the first of them runs, leave head at index
\* min(i + N, last) when the queue is idle again.
NavigationSerialized ==
    (Idle /\ navN > 0 /\ navBase > 0 /\ Threw = {} /\ NoDuplicateShas)
        => HeadIndex = Min(navBase + navN, Len(state.shas))

\* C8: every store-mutating command is issued from inside a queue job, so the
\* tag creation of createAnnotation and the forced checkout of stopSession
\* never run while a queue job is executing.
StoreAccessThroughQueue ==
    (ann.pc = "createTag" \/ stopPc = "checkout") => DOMAIN exec = {}

\* C9: a save job that runs while head # branchHead creates no commit, does
\* not invoke beforeSave, and neither changes nor republishes the projection.
SaveBackInTimeNoOp ==
    [][\A j \in Jobs :
          (Started(j) /\ pushed[j].kind = "save" /\ state.head # state.branchHead)
              => /\ j \in Settled'
                 /\ store' = store
                 /\ hookCalls' = hookCalls
                 /\ state' = state
                 /\ published' = published]_vars

\* a save job has run back in time while the working directory had changes
SaveBackInTimeNoOpWitness ==
    /\ \E j \in 1..Len(result) : result[j] = "backInTime"
    /\ state.head # state.branchHead
    /\ store.dirty

SaveEndsNow(j) ==
    /\ j <= Len(pushed)
    /\ pushed[j].kind = "save"
    /\ SettlesNow(j)
    /\ result'[j] # "threw"

InOrderedIds(st, x) == x = Null \/ \E i \in 1..Len(st.shas) : st.shas[i] = x

HeadsInOrderedIds ==
    /\ InOrderedIds(state, state.head)
    /\ InOrderedIds(state, state.branchHead)

RestoreEndsNow(j) ==
    /\ j <= Len(pushed)
    /\ pushed[j].kind = "restore"
    /\ SettlesNow(j)

AtBoundary(st, kind) ==
    \/ st.head = Null
    \/ kind = "advance" /\ st.shas # <<>> /\ st.shas[Len(st.shas)] = st.head
    \/ kind = "revert" /\ st.shas # <<>> /\ st.shas[1] = st.head

\* C13: revertToPreviousCommit with head the first element of orderedIds,
\* advanceToNextCommit with head the last element, and both with head null,
\* raise no error, push no restoreCommit (so no checkout is issued) and leave
\* the store and the projection unchanged.
BoundaryNoOps ==
    [][\A j \in Jobs :
          (/\ Started(j)
           /\ j <= Len(pushed)
           /\ pushed[j].kind \in {"advance", "revert"}
           /\ AtBoundary(state, pushed[j].kind))
              => /\ j \in Settled'
                 /\ result'[j] # "threw"
                 /\ Len(pushed') = Len(pushed)
                 /\ store' = store
                 /\ state' = state
                 /\ published' = published]_vars

\* the projection initialize would build from the store as it is
ProjectionOf(s) == InitialState(InitializedStore(s))

\* no operation is in flight and none has failed
Quiescent ==
    /\ Idle
    /\ ann.pc = "idle"
    /\ stopPc = "idle"
    /\ Threw = {}
    /\ failures = 0

\* C14: after any sequence of successful save, restoreCommit, next, previous
\* and createAnnotation operations the live projection (orderedIds, head,
\* branchHead, commit map, annotation map) equals the projection initialize
\* would build from the store at that moment.
ProjectionMatchesStore ==
    Quiescent =>
        /\ state.shas = ProjectionOf(store).shas
        /\ state.head = ProjectionOf(store).head
        /\ state.branchHead = ProjectionOf(store).branchHead
        /\ state.commits = ProjectionOf(store).commits
        /\ state.tags = ProjectionOf(store).tags

FailsNow(j) == SettlesNow(j) /\ result'[j] = "threw"

AnnotationFailsNow == ann.pc \in {"createTag", "getTag"} /\ ann'.pc = "failed"

\* C15: no partial update is published. When a step of a save, restoreCommit,
\* next/previous or createAnnotation operation fails, nothing is published and
\* the projection stays the last one published before the failure.
NoPartialPublish ==
    [][((\E j \in Jobs : FailsNow(j)) \/ AnnotationFailsNow)
          => /\ state' = state
             /\ published' = published]_vars

\* a save failed after its commit was made: the store is ahead of the
\* projection, which still is the one published before
NoPartialPublishWitness ==
    /\ \E j \in Threw : pushed[j].kind = "save"
    /\ getBranchHead(store, branch) # state.branchHead
    /\ annCount > 0

Saved == {j \in 1..Len(result) : result[j] = "saved"}

\* C16: initialize on a directory with no store yields head = null,
\* branchHead = null and empty orderedIds; after one save with a new file
\* orderedIds has length 1 and head = branchHead = the new id.
EmptyStoreScenario ==
    /\ published = 0 =>
           /\ state.head = Null
           /\ state.branchHead = Null
           /\ state.shas = <<>>
    /\ (published = 1 /\ Cardinality(Saved) = 1) =>
           /\ Len(state.shas) = 1
           /\ state.shas[1] # Null
           /\ state.head = state.shas[1]
           /\ state.branchHead = state.shas[1]

\* the first save of a session started on an empty directory has committed
EmptyStoreScenarioWitness ==
    /\ published = 1
    /\ Cardinality(Saved) = 1
    /\ getBranchHead(store, branch) = state.head

(***************************************************************************)
(* Claims about the section queries.                                       *)
(***************************************************************************)
Positions(st) == 1..Len(st.shas)

OnTimeline(st, x) == \E i \in Positions(st) : st.shas[i] = x

\* the positions at or after i that no later section start cuts off from i
SectionOf(st, i) ==
    {k \in i..Len(st.shas) :
        \A m \in (i + 1)..k : ~IsAnnotated(st, st.shas[m])}

\* the timeline of 12 commits with sections at the (0-based) indices 2, 5, 9
ExampleTimeline ==
    /\ Len(state.shas) = 12
    /\ DOMAIN state.tags = {3, 6, 10}

\* C17: for an annotated id at index i of orderedIds getSectionCommitCount is
\* the distance from i to the next annotated index, or to the end of
\* orderedIds when there is none (sections at 2, 5, 9 of 12 give 3, 4, 3); for
\* a non-annotated id and for an id not in orderedIds it is 0.
SectionCommitCountIsDistance ==
    query.op = "getSectionCommitCount" =>
        /\ \A i \in Positions(state) :
              (state.shas[i] = query.arg /\ IsAnnotated(state, query.arg))
                  => query.value = Cardinality(SectionOf(state, i))
        /\ ~IsAnnotated(state, query.arg) => query.value = 0
        /\ ~OnTimeline(state, query.arg) => query.value = 0
        /\ ExampleTimeline =>
              /\ query.arg = 3 => query.value = 3
              /\ query.arg = 6 => query.value = 4
              /\ query.arg = 10 => query.value = 3

\* the count of the middle section of the example timeline was asked
SectionCommitCountIsDistanceWitness ==
    /\ query.op = "getSectionCommitCount"
    /\ ExampleTimeline
    /\ query.arg = 6
    /\ query.value = 4

\* C18: isHeadInSection and stepNumberOfHead agree. When isHeadInSection(id)
\* is true, head and id are on the timeline, stepNumberOfHead(id) is
\* index(head) - index(id) + 1, and it lies between 1 and
\* getSectionCommitCount(id).
HeadInSectionAgreesWithStep ==
    (query.op = "isHeadInSection" /\ query.value) =>
        /\ \E h, i \in Positions(state) :
              /\ state.shas[h] = state.head
              /\ state.shas[i] = query.arg
              /\ stepNumberOfHead(state, query.arg) = h - i + 1
        /\ 1 <= stepNumberOfHead(state, query.arg)
        /\ stepNumberOfHead(state, query.arg) <= getSectionCommitCount(state, query.arg)

\* head is the second step of a section that is followed by another one
HeadInSectionAgreesWithStepWitness ==
    /\ query.op = "isHeadInSection"
    /\ query.value
    /\ stepNumberOfHead(state, query.arg) = 2
    /\ \E c \in DOMAIN state.tags : c > state.head /\ OnTimeline(state, c)

\* C19: for an id in orderedIds getSectionStart(id) is the annotated element
\* with the greatest index at or before the index of id, and null when no
\* element at or before id is annotated.
SectionStartIsNearestBefore ==
    query.op = "getSectionStart" =>
        \A i \in Positions(state) :
            state.shas[i] = query.arg =>
                LET before == {k \in 1..i : IsAnnotated(state, state.shas[k])}
                IN  IF before = {} THEN query.value = Null
                    ELSE \E k \in before :
                            /\ query.value = state.shas[k]
                            /\ \A m \in before : m <= k

\* the start of the second section was found from one of its later commits
SectionStartIsNearestBeforeWitness ==
    /\ query.op = "getSectionStart"
    /\ query.value # Null
    /\ query.value < query.arg
    /\ OnTimeline(state, query.arg)
    /\ \E c \in DOMAIN state.tags : c < query.value

(***************************************************************************)
(* Claims about createSlug.                                                *)
(***************************************************************************)
LowerCased(label) == [i \in 1..Len(label) |-> ToLowerChar(label[i])]

\* the positions of the lower-cased label that survive: the characters of
\* [a-z0-9], and the first character of each maximal run of other characters
\* that has a character of [a-z0-9] somewhere before it and somewhere after it
KeptPositions(low) ==
    {i \in 1..Len(low) :
        \/ IsSlugChar(low[i])
        \/ /\ i > 1
           /\ IsSlugChar(low[i - 1])
           /\ \E k \in (i + 1)..Len(low) : IsSlugChar(low[k])}

\* the i-th smallest element of a set of positions
Nth(positions, i) ==
    CHOOSE p \in positions : Cardinality({q \in positions : q <= p}) = i

\* every maximal run outside [a-z0-9] replaced by one hyphen, the runs at
\* both ends removed
RunsToHyphens(low) ==
    [i \in 1..Cardinality(KeptPositions(low)) |->
        LET c == low[Nth(KeptPositions(low), i)]
        IN  IF IsSlugChar(c) THEN c ELSE "-"]

\* C20: createSlug(label) is the lower-cased label with every maximal run of
\* characters outside [a-z0-9] replaced by a single hyphen and the hyphens at
\* both ends removed; it has only characters of [a-z0-9-], no leading,
\* trailing or doubled hyphen, and createSlug is idempotent.
SlugIsNormalForm ==
    query.op = "createSlug" =>
        LET slug == query.value
        IN  /\ slug = RunsToHyphens(LowerCased(query.arg))
            /\ \A i \in 1..Len(slug) : IsSlugChar(slug[i]) \/ slug[i] = "-"
            /\ slug # <<>> => slug[1] # "-" /\ slug[Len(slug)] # "-"
            /\ \A i \in 1..(Len(slug) - 1) : ~(slug[i] = "-" /\ slug[i + 1] = "-")
            /\ createSlug(slug) = slug

\* a label with a capital, a leading separator and a run of two separators
SlugIsNormalFormWitness ==
    /\ query.op = "createSlug"
    /\ query.arg = <<" ", "I", " ", "-", "1">>
    /\ query.value = <<"i", "-", "1">>

(***************************************************************************)
(* Claims about parseCommitsSummary.                                       *)
(***************************************************************************)
\* the ids of the record headers of a log, in the order of the input
HeaderIds(lines) ==
    LET at == {i \in 1..Len(lines) : lines[i].kind = "commit"}
    IN  [k \in 1..Cardinality(at) |-> lines[Nth(at, k)].sha]

\* C21: for a log of n well-formed records given newest first,
\* parseCommitsSummary returns exactly n records, one per record header, in
\* the reverse of their order in the input (oldest first).
ParsedOldestFirst ==
    query.op = "parseCommitsSummary" =>
        LET ids == HeaderIds(query.arg.lines)
            out == query.value.commits
        IN  /\ ~query.value.threw
            /\ Len(out) = Len(query.arg.shapes)
            /\ Len(out) = Len(ids)
            /\ \A i \in 1..Len(out) : out[i].sha = ids[Len(ids) + 1 - i]

\* a log of three records, one of them a merge and one without file lines
ParsedOldestFirstWitness ==
    /\ query.op = "parseCommitsSummary"
    /\ Len(query.value.commits) = 3
    /\ query.value.commits[1].sha = 1
    /\ \E i \in 1..3 : query.arg.shapes[i].merge
    /\ \E i \in 1..3 : query.arg.shapes[i].files = 0

\* the parser after the first n lines of the input
ParserAfter(lines, n) == ParseLines(ParserStart, SubSeq(lines, 1, n))

\* the positions where a record header is met in the fileset state
HeadersInFileset(lines) ==
    {i \in 1..Len(lines) : /\ lines[i].kind = "commit"
                           /\ ParserAfter(lines, i - 1).state = "fileset"}

\* the parser stops in the middle of a record
EndsInProgress(lines) == ParserAfter(lines, Len(lines)).commit.sha # Null

\* C30: a record header met in the fileset state accepts the record in
\* progress and continues in the author state with the new record's id, so
\* neither record is lost and no error is raised; a record still in progress
\* at the end of the input is accepted as well.
HeaderInFilesetAccepts ==
    query.op = "parseCommitsSummary" =>
        LET lines == query.arg.lines
            out == query.value.commits
            ids == {out[k].sha : k \in 1..Len(out)}
        IN  /\ \A i \in HeadersInFileset(lines) :
                  LET before == ParserAfter(lines, i - 1)
                      after == ParserAfter(lines, i)
                  IN  /\ ~after.threw
                      /\ after.state = "author"
                      /\ after.commit.sha = lines[i].sha
                      /\ after.commits = Append(before.commits, before.commit)
                      /\ {before.commit.sha, lines[i].sha} \subseteq ids
            /\ EndsInProgress(lines) =>
                  /\ ~query.value.threw
                  /\ Len(out) > 0
                  /\ ParserAfter(lines, Len(lines)).commit.sha = out[1].sha
            /\ ~query.value.threw

\* a record without file lines followed by another record, in a log whose
\* last record is cut short
HeaderInFilesetAcceptsWitness ==
    /\ query.op = "parseCommitsSummary"
    /\ HeadersInFileset(query.arg.lines) # {}
    /\ EndsInProgress(query.arg.lines)
    /\ ParserAfter(query.arg.lines, Len(query.arg.lines)).state = "end"
    /\ Len(query.value.commits) = 2

(***************************************************************************)
(* Claims about getChangeRanges.                                           *)
(***************************************************************************)
Tagged(hunk, tag) == {i \in 1..Len(hunk.lines) : hunk.lines[i].tag = tag}

OnlyAdded(hunk) == Tagged(hunk, "+") # {} /\ Tagged(hunk, "-") = {}

OnlyDeleted(hunk) == Tagged(hunk, "-") # {} /\ Tagged(hunk, "+") = {}

First(positions) == CHOOSE i \in positions : \A k \in positions : i <= k

Last(positions) == CHOOSE i \in positions : \A k \in positions : i >= k

\* the number in the new file of the hunk line at position i
NewLineNo(hunk, i) ==
    hunk.newStart + Cardinality({k \in 1..(i - 1) : hunk.lines[k].tag \in {"+", " "}})

\* the number in the old file of the hunk line at position i
OldLineNo(hunk, i) ==
    hunk.oldStart + Cardinality({k \in 1..(i - 1) : hunk.lines[k].tag \in {"-", " "}})

\* C22: for a hunk that contains only added lines, before is a single point,
\* at line 1 column 1 when the addition is the hunk's first line and
\* otherwise at the end of the line preceding the first added line, and after
\* spans from column 1 of the first added line to the end of the last one.
AdditionRanges ==
    (query.op = "getChangeRanges" /\ OnlyAdded(query.arg)) =>
        LET hunk == query.arg
            f == First(Tagged(hunk, "+"))
            l == Last(Tagged(hunk, "+"))
            r == query.value
        IN  /\ r.before.start = r.before.end
            /\ r.before.start =
                  IF f = 1 THEN [line |-> 1, character |-> 1]
                  ELSE [line |-> OldLineNo(hunk, f - 1),
                        character |-> hunk.lines[f - 1].len]
            /\ r.after.start = [line |-> NewLineNo(hunk, f), character |-> 1]
            /\ r.after.end = [line |-> NewLineNo(hunk, l),
                              character |-> hunk.lines[l].len]

\* three lines added after a kept empty line 7, the last one a single
\* character: before is the point (7,1), after runs from (8,1) to (10,2)
AdditionRangesWitness ==
    /\ query.op = "getChangeRanges"
    /\ OnlyAdded(query.arg)
    /\ query.arg.oldStart = 7 /\ query.arg.newStart = 7
    /\ query.value.before = [start |-> [line |-> 7, character |-> 1],
                             end |-> [line |-> 7, character |-> 1]]
    /\ query.value.after.start = [line |-> 8, character |-> 1]
    /\ query.value.after.end = [line |-> 10, character |-> 2]

\* C23: for a hunk that contains only deleted lines, after is a single point,
\* at (1,1) when the deletion starts at the hunk's first line and otherwise
\* immediately after the line preceding the first deletion, and before spans
\* from column 1 of the first deleted line to the end of the last one.
DeletionRanges ==
    (query.op = "getChangeRanges" /\ OnlyDeleted(query.arg)) =>
        LET hunk == query.arg
            f == First(Tagged(hunk, "-"))
            l == Last(Tagged(hunk, "-"))
            r == query.value
        IN  /\ r.after.start = r.after.end
            /\ r.after.start =
                  IF f = 1 THEN [line |-> 1, character |-> 1]
                  ELSE [line |-> NewLineNo(hunk, f - 1),
                        character |-> hunk.lines[f - 1].len]
            /\ r.before.start = [line |-> OldLineNo(hunk, f), character |-> 1]
            /\ r.before.end = [line |-> OldLineNo(hunk, l),
                               character |-> hunk.lines[l].len]

\* two lines deleted after a kept line 7 of one character: after is the
\* point (7,2), before runs from (8,1) to (9,2)
DeletionRangesWitness ==
    /\ query.op = "getChangeRanges"
    /\ OnlyDeleted(query.arg)
    /\ query.arg.oldStart = 7 /\ query.arg.newStart = 7
    /\ query.value.after = [start |-> [line |-> 7, character |-> 2],
                            end |-> [line |-> 7, character |-> 2]]
    /\ query.value.before = [start |-> [line |-> 8, character |-> 1],
                             end |-> [line |-> 9, character |-> 2]]

(***************************************************************************)
(* Claims about branchFrom.                                                *)
(***************************************************************************)
\* C24: branchFrom(id, name) with id at index k of orderedIds yields a
\* projection whose orderedIds is the prefix of the old orderedIds up to and
\* including id (length k + 1), whose active branch is name and whose
\* head = branchHead = id, while the snapshots after id remain reachable on
\* the original timeline.
BranchFromTruncates ==
    query.op = "branchFrom" =>
        LET old == query.arg.state
            id == query.arg.id
            new == query.value
            k == CHOOSE i \in 1..Len(old.shas) : old.shas[i] = id
        IN  /\ Len(new.state.shas) = k
            /\ \A i \in 1..k : new.state.shas[i] = old.shas[i]
            /\ new.branch = "other"
            /\ new.store.headRef = new.branch
            /\ new.state.head = id /\ new.state.branchHead = id
            /\ getHead(new.store) = id
            /\ getBranchChangeLog(new.store, new.branch) = new.state.shas
            /\ getBranchChangeLog(new.store, branch) = old.shas
            /\ new.store.parents = query.arg.store.parents

\* branchFrom(orderedIds[2], "other") on a timeline of five snapshots
BranchFromTruncatesWitness ==
    /\ query.op = "branchFrom"
    /\ Len(query.arg.state.shas) = 5
    /\ query.arg.id = query.arg.state.shas[3]
    /\ Len(query.value.state.shas) = 3
    /\ Len(getBranchChangeLog(query.value.store, branch)) = 5

(***************************************************************************)
(* Claims about the timeline the projection holds.                         *)
(***************************************************************************)
\* C25: after any sequence of initialize, save, restoreCommit, next and
\* previous, orderedIds contains no id twice and is gap-free in ancestry
\* order: each element's parent snapshot in the store is the element before
\* it.
TimelineGapFree ==
    /\ \A i, k \in 1..Len(state.shas) : state.shas[i] = state.shas[k] => i = k
    /\ \A i \in 2..Len(state.shas) :
          store.parents[state.shas[i]] = state.shas[i - 1]

\* job j, a save, creates its commit in this step, and the job before it was
\* a restoreCommit of the projection's branchHead that succeeded
CommitsAfterRestoreOfBranchHead(j) ==
    /\ j > 1
    /\ Suspended(j, "commit")
    /\ store.staged
    /\ Len(store'.parents) = Len(store.parents) + 1
    /\ pushed[j - 1].kind = "restore"
    /\ result[j - 1] = "restored"
    /\ pushed[j - 1].sha = state.branchHead

\* C26: restoreCommit(id) uses the attached branch checkout exactly when id
\* equals the projection's branchHead at the time the job runs and a detached
\* checkout otherwise; hence after restoreCommit(branchHead) the next save
\* that has changes moves the active branch's tip to the new snapshot.
AttachedIffBranchHead ==
    [][\A j \in Jobs :
          /\ (Started(j) /\ j <= Len(pushed) /\ pushed[j].kind = "restore") =>
                 (exec'[j].mode = "branch" <=> pushed[j].sha = state.branchHead)
          /\ (RestoreEndsNow(j) /\ result'[j] = "restored") =>
                 IF pushed[j].sha = state.branchHead
                 THEN store'.headRef = branch
                 ELSE store'.headRef = "detached" /\ store'.headSha = pushed[j].sha
          /\ CommitsAfterRestoreOfBranchHead(j) =>
                 /\ store'.tip[branch] = Len(store'.parents)
                 /\ store'.tip[branch] # store.tip[branch]]_vars

\* a detached restoreCommit, then restoreCommit(branchHead), then a save that
\* moved the branch to its new snapshot
AttachedIffBranchHeadWitness ==
    /\ Len(result) >= 3
    /\ pushed[1].kind = "restore" /\ result[1] = "restored"
    /\ pushed[2].kind = "restore" /\ result[2] = "restored"
    /\ pushed[1].sha # pushed[2].sha
    /\ pushed[3].kind = "save" /\ result[3] = "saved"
    /\ state.head # Null
    /\ store.tip[branch] = state.head
    /\ store.parents[state.head] = pushed[2].sha

\* head is a snapshot that is not an element of orderedIds
HeadOffTimeline(st) == st.head # Null /\ ~OnTimeline(st, st.head)

\* C29: when next or previous runs with a non-null head that is not an
\* element of orderedIds, the operation raises an internal-consistency error,
\* performs no checkout and leaves the projection unchanged; it never treats
\* the condition as a boundary no-op.
OffTimelineRaises ==
    [][\A j \in Jobs :
          (/\ Started(j)
           /\ j <= Len(pushed)
           /\ pushed[j].kind \in {"advance", "revert"}
           /\ HeadOffTimeline(state))
              => /\ result'[j] = "threw"
                 /\ Len(pushed') = Len(pushed)
                 /\ DOMAIN exec' = DOMAIN exec
                 /\ store' = store
                 /\ state' = state
                 /\ published' = published]_vars

\* both a next and a previous have raised with head off the timeline
OffTimelineRaisesWitness ==
    /\ HeadOffTimeline(state)
    /\ \E j \in Threw : pushed[j].kind = "advance"
    /\ \E j \in Threw : pushed[j].kind = "revert"
    /\ failures = 0

(***************************************************************************)
(* Claims about annotations.                                               *)
(***************************************************************************)
AnnotationSucceedsNow == ann.pc = "getTag" /\ ann'.pc = "idle"

\* C27: after createAnnotation(id, label) succeeds, getAnnotation(id) returns
\* label, every other entry of the annotation map is unchanged, and
\* orderedIds, head, branchHead and the commit map are unchanged.
AnnotationStoresLabel ==
    [][AnnotationSucceedsNow =>
          /\ IsAnnotated(state', ann.sha)
          /\ getAnnotation(state', ann.sha) = ann.label
          /\ \A c \in (DOMAIN state.tags) \ {ann.sha} :
                 c \in DOMAIN state'.tags /\ state'.tags[c] = state.tags[c]
          /\ DOMAIN state'.tags = DOMAIN state.tags \cup {ann.sha}
          /\ state'.shas = state.shas
          /\ state'.head = state.head
          /\ state'.branchHead = state.branchHead
          /\ state'.commits = state.commits]_vars

\* C28: annotations are one-to-one with snapshots: after createAnnotation is
\* called twice on the same id with labels that have different slugs, the
\* annotation the live projection reports for id is the one a projection
\* re-initialized from the store reports for id.
LiveAnnotationIsStored ==
    (ann.pc = "idle" /\ failures = 0) =>
        \A c \in DOMAIN state.tags :
            getAnnotation(state, c) = getAnnotation(InitialState(store), c)

(***************************************************************************)
(* Claims about lines parseCommitsSummary does not expect.                 *)
(***************************************************************************)
\* the kinds of line each checking state expects
Expected(pstate) ==
    CASE pstate = "begin" -> {"commit"}
      [] pstate = "author" -> {"merge", "author"}
      [] pstate = "date" -> {"date"}
      [] pstate = "message-begin" -> {"blank"}
      [] pstate = "end" -> {"blank"}

CheckingStates == {"begin", "author", "date", "message-begin", "end"}

\* C31: a line that does not match the pattern expected in the current state
\* is a fatal parse error and never skipped: in each of the states begin,
\* author, date, message-begin and end, a non-matching line raises an error
\* and no snapshot list is returned (the only allowed skip is a merge-marker
\* line in the author state).
UnexpectedLineRaises ==
    query.op = "parseDamaged" =>
        LET lines == query.arg.lines
            before == ParserAfter(lines, query.arg.at - 1)
        IN  (/\ ~before.threw
             /\ before.state \in CheckingStates
             /\ lines[query.arg.at].kind \notin Expected(before.state))
                => /\ query.value.threw
                   /\ query.value.commits = <<>>

(***************************************************************************)
(* More claims about getChangeRanges.                                      *)
(***************************************************************************)
SwapTag(tag) == IF tag = "+" THEN "-" ELSE IF tag = "-" THEN "+" ELSE tag

\* the hunk of the reverse change
Swapped(hunk) ==
    [oldStart |-> hunk.newStart, newStart |-> hunk.oldStart,
     lines |-> [i \in 1..Len(hunk.lines) |->
                   [hunk.lines[i] EXCEPT !.tag = SwapTag(hunk.lines[i].tag)]]]

Mixed(hunk) == Tagged(hunk, "+") # {} /\ Tagged(hunk, "-") # {}

\* C32: getChangeRanges is symmetric in old and new: swapping added and
\* deleted lines (and oldStart with newStart) swaps before and after; a hunk
\* with both additions and deletions yields before spanning the deleted lines
\* numbered from oldStart and after spanning the added lines numbered from
\* newStart.
RangesSymmetric ==
    query.op = "getChangeRanges" =>
        LET hunk == query.arg
            r == query.value
            s == getChangeRanges(Swapped(hunk))
        IN  /\ s.before = r.after
            /\ s.after = r.before
            /\ Mixed(hunk) =>
                  /\ r.before.start = [line |-> OldLineNo(hunk, First(Tagged(hunk, "-"))),
                                       character |-> 1]
                  /\ r.before.end = [line |-> OldLineNo(hunk, Last(Tagged(hunk, "-"))),
                                     character |-> hunk.lines[Last(Tagged(hunk, "-"))].len]
                  /\ r.after.start = [line |-> NewLineNo(hunk, First(Tagged(hunk, "+"))),
                                      character |-> 1]
                  /\ r.after.end = [line |-> NewLineNo(hunk, Last(Tagged(hunk, "+"))),
                                    character |-> hunk.lines[Last(Tagged(hunk, "+"))].len]

\* a line replaced by two: before is one line, after two, and the added
\* lines come before a deleted one in the hunk
RangesSymmetricWitness ==
    /\ query.op = "getChangeRanges"
    /\ Mixed(query.arg)
    /\ First(Tagged(query.arg, "+")) < Last(Tagged(query.arg, "-"))
    /\ query.value.before.start.line = query.value.before.end.line
    /\ query.value.after.end.line = query.value.after.start.line + 1
    /\ query.arg.oldStart # query.arg.newStart

\* the ranges of one hunk, from the numbers of its changed lines
RangesOf(hunk) ==
    LET del == Tagged(hunk, "-")
        add == Tagged(hunk, "+")
        \* the point after the kept line before the first changed line
        point(start, f) ==
            IF f = 1 THEN [line |-> 1, character |-> 1]
            ELSE [line |-> start + f - 2, character |-> hunk.lines[f - 1].len]
        span(set, first, last) ==
            [start |-> [line |-> first, character |-> 1],
             end |-> [line |-> last, character |-> hunk.lines[Last(set)].len]]
    IN  [before |-> IF del = {}
                    THEN [start |-> point(hunk.oldStart, First(add)),
                          end |-> point(hunk.oldStart, First(add))]
                    ELSE span(del, OldLineNo(hunk, First(del)), OldLineNo(hunk, Last(del))),
         after |-> IF add = {}
                   THEN [start |-> point(hunk.newStart, First(del)),
                         end |-> point(hunk.newStart, First(del))]
                   ELSE span(add, NewLineNo(hunk, First(add)), NewLineNo(hunk, Last(add)))]

\* C33: getChangeRanges derives its result from the last hunk of the first
\* file diff only (after removing the no-newline-at-end-of-file lines), and
\* returns none, without raising an error, when the diff has no hunks.
RangesOfLastHunk ==
    query.op = "getChangeRangesOfDiff" =>
        LET hunks == query.arg[1].hunks
        IN  IF hunks = <<>>
            THEN query.value = None
            ELSE query.value = RangesOf(hunks[Len(hunks)])

\* two files; the first one has two hunks, the last of them with
\* no-newline lines, and the ranges are those of that hunk
RangesOfLastHunkWitness ==
    /\ query.op = "getChangeRangesOfDiff"
    /\ Len(query.arg) = 2
    /\ Len(query.arg[1].hunks) = 2
    /\ query.arg[1].hunks[1].oldStart = 1
    /\ Tagged(query.arg[1].hunks[2], "\\") # {}
    /\ query.arg[2].hunks # <<>>
    /\ query.value.before = [start |-> [line |-> 8, character |-> 1],
                             end |-> [line |-> 8, character |-> 2]]
    /\ query.value.after = [start |-> [line |-> 7, character |-> 1],
                            end |-> [line |-> 7, character |-> 2]]

(***************************************************************************)
(* Claims about the extension's save guard and replay.                     *)
(***************************************************************************)
\* C40: the concurrent-save guard of doSave never fires: for any sequence of
\* queued save jobs, including sequences in which an earlier save failed with
\* an error, the save counter is 0 when doSave is entered, so no save is
\* rejected with 'Multiple processes are saving at the same time'.
SaveGuardNeverFires ==
    /\ ext.guardFired = 0
    /\ (ext.running = "none" /\ ext.jobs # <<>>) => ext.saveRefCount = 0

\* the stop flag is set while a replay steps through the commits
StopInProgress ==
    /\ ext.running = "replay"
    /\ ext.pc \in {"restore", "delay"}
    /\ ext.state = "idle"

\* C34: once the stop flag is set while a replay is stepping through
\* snapshots, at most the step already in progress completes, no further
\* snapshot is restored, the snapshots already restored are not rolled back,
\* and the replay job ends so that queued jobs can run.
ReplayStopHalts ==
    /\ [][StopInProgress =>
            /\ ext'.restored # ext.restored =>
                   /\ ext.pc = "restore"
                   /\ ext'.pc = "delay"
                   /\ ext'.restored = Append(ext.restored, ext.idx)
            /\ ext.pc = "delay" =>
                   /\ ext'.pc # "restore"
                   /\ ext'.restored = ext.restored
                   /\ ext'.head = ext.head
                   /\ ext'.pc # "delay" => ext'.running = "none"]_vars
    /\ [][/\ Len(ext'.restored) >= Len(ext.restored)
          /\ SubSeq(ext'.restored, 1, Len(ext.restored)) = ext.restored
          /\ ext'.head >= ext.head]_vars
    /\ StopInProgress ~> (ext.running # "replay")

\* a replay was stopped before the last commit and a save that was queued
\* behind it runs
ReplayStopHaltsWitness ==
    /\ ext.restored # <<>>
    /\ ext.head < ext.n
    /\ ext.failed = 0
    /\ ext.running = "save"
    /\ ext.state = "idle"

(***************************************************************************)
(* Claims about the change tracker.                                        *)
(***************************************************************************)
\* the root tree of the change that was current when pushChange was called
TreeBefore ==
    IF tracker.call.before = <<>> THEN treeSha(<<>>)
    ELSE rootTreeSha(tracker.call.before)

\* what the tree holds at the path: the content of the file there, in a
\* sequence of its own, or nothing
RECURSIVE HeldAt(_, _, _)
HeldAt(trees, sha, parts) ==
    LET tree == fetchTree(trees, sha)
        at == EntryAt(tree, Head(parts))
    IN IF at = 0 THEN <<>>
       ELSE IF Len(parts) = 1
       THEN IF tree[at].type = "blob" THEN tree[at].sha ELSE <<>>
       ELSE IF tree[at].type = "blob" THEN <<>>
       ELSE HeldAt(trees, tree[at].sha, Tail(parts))

\* a directory of the path is a file in the tree
RECURSIVE FileAbove(_, _, _)
FileAbove(trees, sha, parts) ==
    LET tree == fetchTree(trees, sha)
        at == EntryAt(tree, Head(parts))
    IN /\ Len(parts) > 1
       /\ at # 0
       /\ \/ tree[at].type = "blob"
          \/ /\ tree[at].type = "tree"
             /\ FileAbove(trees, tree[at].sha, Tail(parts))

PushCalled == tracker.result.kind # "none"
ContentDiffers ==
    HeldAt(tracker.trees, TreeBefore, Split(tracker.call.path))
        # <<tracker.call.content>>
PathBlocked == FileAbove(tracker.trees, TreeBefore, Split(tracker.call.path))

ReturnsNewChange ==
    /\ tracker.result.kind = "sha"
    /\ tracker.result.sha # <<>>
    /\ tracker.result.sha \in tracker.changes
    /\ parentSha(tracker.result.sha) = tracker.call.before
    /\ tracker.current = tracker.result.sha
    /\ tracker.current # tracker.call.before

ReturnsNull ==
    /\ tracker.result.kind = "null"
    /\ tracker.current = tracker.call.before

\* C35: pushChange(path, content) returns a non-null new change id, records
\* the previous current id as its parent and makes the new id current,
\* whenever content differs from what the current change's tree holds at
\* path; when the content is identical it returns null and leaves the
\* current ref unchanged.
PushChangeReturns ==
    PushCalled => IF ContentDiffers THEN ReturnsNewChange ELSE ReturnsNull

\* C35 amended: the same, unless a directory of the path is a file in the
\* current change's tree; then pushChange throws and leaves the current ref
\* unchanged.
PushChangeReturnsOrThrows ==
    PushCalled =>
        IF PathBlocked
        THEN tracker.result.kind = "throw" /\ tracker.current = tracker.call.before
        ELSE IF ContentDiffers THEN ReturnsNewChange ELSE ReturnsNull

\* the content of a file of the current change was replaced by another
PushChangeReturnsOrThrowsWitness ==
    /\ tracker.result.kind = "sha"
    /\ tracker.call.before # <<>>
    /\ HeldAt(tracker.trees, TreeBefore, Split(tracker.call.path)) # <<>>
    /\ Len(Split(tracker.call.path)) > 1

(***************************************************************************)
(* Claims about annotations made while a job runs.                         *)
(***************************************************************************)
\* C36: an annotation merged into the projection by createAnnotation is never
\* lost to a concurrent job: whatever the interleaving of createAnnotation
\* with a save or restoreCommit job in progress, each publication keeps what
\* the other published: a job's publication keeps every annotation, and the
\* annotation's publication keeps the ids, the commits and the heads.
AnnotationSurvivesJobs ==
    [][/\ \A c \in DOMAIN state.tags :
              c \in DOMAIN state'.tags
       /\ AnnotationSucceedsNow =>
              /\ ann.sha \in DOMAIN state'.tags
              /\ state'.shas = state.shas
              /\ state'.commits = state.commits
              /\ state'.head = state.head
              /\ state'.branchHead = state.branchHead
              /\ state'.workingDirModified = state.workingDirModified
       /\ (published' # published /\ ~AnnotationSucceedsNow) =>
              state'.tags = state.tags]_vars

\* the annotation was published while a save or a restore is in progress
AnnotationSurvivesJobsWitness ==
    /\ ann.pc = "idle"
    /\ annCount > 0
    /\ ann.sha \in DOMAIN state.tags
    /\ \E j \in DOMAIN exec : exec[j].pc \in {"show", "checkout"}

(***************************************************************************)
(* Claims about the commit map.                                            *)
(***************************************************************************)
\* C37: in every reachable projection, every id in orderedIds has an entry in
\* the commit map (getCommit(id) is defined), and no operation ever removes
\* an entry from the commit map.
CommitMapCoversIds ==
    /\ [](\A i \in 1..Len(state.shas) : state.shas[i] \in state.commits)
    /\ [][state.commits \subseteq state'.commits]_vars

\* a save has added an id and its commit to a timeline that had commits
CommitMapCoversIdsWitness ==
    /\ \E j \in DOMAIN result : result[j] = "saved"
    /\ Len(state.shas) >= 2
    /\ state.shas[Len(state.shas)] \in state.commits

(***************************************************************************)
(* Claims about the sections as a partition of the timeline.               *)
(***************************************************************************)
\* C38: sections partition the timeline: whenever head is in orderedIds,
\* isHeadInSection(s) is true for exactly one annotated id s when
\* getSectionStart(head) is non-null, namely s = getSectionStart(head), and
\* for no id when getSectionStart(head) is null.
HeadInExactlyOneSection ==
    (query.op = "isHeadInSection" /\ OnTimeline(state, state.head)) =>
        /\ query.value <=>
               /\ getSectionStart(state, state.head) # Null
               /\ query.arg = getSectionStart(state, state.head)
        /\ query.value => IsAnnotated(state, query.arg)
        /\ LET holding == {s \in DOMAIN state.tags : isHeadInSection(state, s)}
           IN  Cardinality(holding) =
                   IF getSectionStart(state, state.head) = Null THEN 0 ELSE 1

\* head is inside the second of three sections and the query was asked about
\* the first
HeadInExactlyOneSectionWitness ==
    /\ query.op = "isHeadInSection"
    /\ ~query.value
    /\ OnTimeline(state, state.head)
    /\ OnTimeline(state, query.arg)
    /\ IsAnnotated(state, query.arg)
    /\ query.arg < getSectionStart(state, state.head)
    /\ \E c \in DOMAIN state.tags : c > state.head /\ OnTimeline(state, c)

\* C39: the section queries treat an id that is not in orderedIds (for
\* instance a head outside the active timeline) as belonging to no section:
\* getSectionStart returns null for it, just as getSectionCommitCount returns
\* 0 and isHeadInSection returns false.
OffTimelineHasNoSection ==
    ~OnTimeline(state, query.arg) =>
        /\ query.op = "getSectionStart" => query.value = Null
        /\ query.op = "getSectionCommitCount" => query.value = 0
        /\ query.op = "isHeadInSection" => query.value = FALSE

====
